---- MODULE Spec2Model ----
(***************************************************************************)
(* A model of tool-json's reference engine: the resource registry, the     *)
(* reference registration / resolution protocol and the tree-shaking       *)
(* rewriter.                                                               *)
(*                                                                         *)
(* Strings are sequences of one-character strings, so that split, slice,   *)
(* lastIndexOf and pointer escaping are computed as the code computes them.*)
(* Nodes are cells of a fixed arena addressed by identity (an integer);    *)
(* nodes built by the rewriter are structural values carrying a fresh id.  *)
(***************************************************************************)
EXTENDS Integers, Sequences, FiniteSets, TLC

\* ------------------------------------------------------------------ bounds

\* How many references may be registered in one run.
MaxRefs == 2

\* How many treeShakeReferences calls may be made in one run.
MaxShakes == 1

\* Recursion budget of one treeShakeReferences call: exceeding it is reported
\* as divergence instead of looping.
Fuel == 60

\* ----------------------------------------------------------------- strings

\* The value `undefined` where a string is expected.
UndefStr == <<"undefined">>

Max(a, b) == IF a >= b THEN a ELSE b

\* String.prototype.indexOf(c, from), 0-based, -1 when absent.
RECURSIVE IndexOf(_, _, _)
IndexOf(s, c, from) ==
  IF from >= Len(s) THEN -1
  ELSE IF s[from + 1] = c THEN from
  ELSE IndexOf(s, c, from + 1)

\* String.prototype.lastIndexOf(c), 0-based, -1 when absent.
RECURSIVE LastIndexFrom(_, _, _)
LastIndexFrom(s, c, i) ==
  IF i < 0 THEN -1
  ELSE IF s[i + 1] = c THEN i
  ELSE LastIndexFrom(s, c, i - 1)

LastIndexOf(s, c) == LastIndexFrom(s, c, Len(s) - 1)

\* String.prototype.slice(start, end) for 0 <= start, end <= length.
Slice(s, start, end) == SubSeq(s, start + 1, end)

StartsWith(s, c) == Len(s) > 0 /\ s[1] = c

EndsWith(s, c) == Len(s) > 0 /\ s[Len(s)] = c

\* uri.split("#", 2): the pieces between the '#' characters, cut to the first
\* two; the second piece is undefined when the string holds no '#'.
SplitHash2(uri) ==
  LET h1 == IndexOf(uri, "#", 0)
  IN  IF h1 = -1 THEN <<uri, UndefStr>>
      ELSE LET h2 == IndexOf(uri, "#", h1 + 1)
               e  == IF h2 = -1 THEN Len(uri) ELSE h2
           IN  <<Slice(uri, 0, h1), Slice(uri, h1 + 1, e)>>

\* escapePointer: '~' becomes "~0" and '/' becomes "~1".
RECURSIVE escapePointer(_)
escapePointer(input) ==
  IF input = <<>> THEN <<>>
  ELSE (IF Head(input) = "~" THEN <<"~", "0">>
        ELSE IF Head(input) = "/" THEN <<"~", "1">>
        ELSE <<Head(input)>>) \o escapePointer(Tail(input))

\* unescapePointer: "~0" becomes '~' and "~1" becomes '/'; any other escape
\* is a TypeError, reported as UndefStr.
RECURSIVE unescapePointer(_)
unescapePointer(input) ==
  IF input = <<>> THEN <<>>
  ELSE IF Head(input) # "~" THEN
         LET rest == unescapePointer(Tail(input))
         IN  IF rest = UndefStr THEN UndefStr ELSE <<Head(input)>> \o rest
  ELSE IF Len(input) < 2 \/ input[2] \notin {"0", "1"} THEN UndefStr
  ELSE LET rest == unescapePointer(Tail(Tail(input)))
       IN  IF rest = UndefStr THEN UndefStr
           ELSE <<IF input[2] = "0" THEN "~" ELSE "/">> \o rest

\* ------------------------------------------------------------------- nodes

\* A JSON value: an object or array of the arena (by identity), a node built
\* by the rewriter (by identity, with its content), a string, or undefined.
Obj(n) == [s |-> <<>>, c |-> <<>>, n |-> n, t |-> "obj"]
Str(s) == [s |-> s, c |-> <<>>, n |-> 0, t |-> "str"]
Undef == [s |-> <<>>, c |-> <<>>, n |-> 0, t |-> "undef"]
\* A freshly built object (arr = FALSE) or array with identity n and the
\* entries c, each <<key, value>>.
New(n, arr, c) == [s |-> <<>>, c |-> c, n |-> n, t |-> IF arr THEN "newarr" ELSE "newobj"]

RefKey == <<"$", "r", "e", "f">>

\* The documents. Document A (no canonical URI) is node 1; document B
\* (canonical URI "u") is node 8; document V (canonical URI "v", supplied
\* by the external resolver only) is node 10. Node 11 holds a reference
\* that is not a valid URI reference, node 12 a reference keyword whose
\* value is not a string, node 13 holds nodes 3, 11 and 4 in this order,
\* and node 14 has a string under the reference keyword and under "k".
NodeTable ==
  << [c |-> << <<<<"t">>, Obj(2)>>, <<<<"x">>, Obj(3)>>,
               <<<<"y">>, Obj(4)>>, <<<<"a">>, Obj(5)>> >>, arr |-> FALSE],
     [c |-> << <<<<"k">>, Str(<<"s">>)>> >>, arr |-> FALSE],
     [c |-> << <<RefKey, Str(<<"#", "/", "t">>)>> >>, arr |-> FALSE],
     [c |-> << <<RefKey, Str(<<"#", "/", "t">>)>> >>, arr |-> FALSE],
     [c |-> << <<<<"t">>, Obj(6)>> >>, arr |-> FALSE],
     [c |-> << <<<<"f">>, Obj(7)>> >>, arr |-> FALSE],
     [c |-> << <<RefKey, Str(<<"#", "/", "a", "/", "t">>)>> >>, arr |-> FALSE],
     [c |-> << <<<<"t">>, Obj(9)>> >>, arr |-> FALSE],
     [c |-> << <<<<"0">>, Str(<<"s">>)>>, <<<<"1">>, Obj(2)>> >>, arr |-> TRUE],
     [c |-> << <<<<"k">>, Str(<<"s">>)>> >>, arr |-> FALSE],
     [c |-> << <<RefKey, Str(<<"b", " ", "d">>)>> >>, arr |-> FALSE],
     [c |-> << <<RefKey, Obj(2)>> >>, arr |-> FALSE],
     [c |-> << <<<<"p">>, Obj(3)>>, <<<<"q">>, Obj(11)>>,
               <<<<"r">>, Obj(4)>> >>, arr |-> FALSE],
     [c |-> << <<RefKey, Str(<<"#", "/", "t">>)>>,
               <<<<"k">>, Str(<<"s">>)>> >>, arr |-> FALSE] >>

NodeIds == 1..Len(NodeTable)

\* The content of every object and array of the documents, by identity.
VARIABLE arena

\* isObject: true of objects and arrays, false of strings and undefined.
isObject(v) == v.t \in {"obj", "newobj", "newarr"}

\* isArray.
isArray(v) ==
  \/ v.t = "newarr"
  \/ v.t = "obj" /\ arena[v.n].arr

\* Object.entries(node) (for an array: its indices and items).
Entries(v) == IF v.t = "obj" THEN arena[v.n].c ELSE v.c

\* getChild(node, key): undefined for a non-object or a missing key.
getChild(v, key) ==
  IF ~isObject(v) THEN Undef
  ELSE LET es == Entries(v)
           hit == {i \in 1..Len(es) : es[i][1] = key}
       IN  IF hit = {} THEN Undef ELSE es[CHOOSE i \in hit : TRUE][2]

\* ------------------------------------------------------------------ errors

NoCause == <<>>

\* new ResolutionError(message, {location, cause}); message is the sequence
\* of its pieces.
ResolutionError(msg, loc, cause) ==
  [msg |-> msg, loc |-> loc, cause |-> cause, cls |-> "ResolutionError"]

\* new TypeError(message).
TypeError(msg) == [msg |-> msg, loc |-> UndefStr, cause |-> NoCause, cls |-> "TypeError"]

\* An error of the external resolver that is not a ResolutionError.
PlainError(msg) == [msg |-> msg, loc |-> UndefStr, cause |-> NoCause, cls |-> "Error"]

NoError == [msg |-> <<>>, loc |-> UndefStr, cause |-> NoCause, cls |-> "none"]

\* The outcome of a call: a value, or a thrown error.
Ok(v) == [v |-> v, ok |-> TRUE, err |-> NoError]
Throw(e) == [v |-> Undef, ok |-> FALSE, err |-> e]

\* --------------------------------------------------------------- resources

\* createResource(canonicalUri, node): the resources of the model, by
\* identity. 1 is document A (no canonical URI), 2 is document B, 3 is
\* document V, 4 is a second Resource object made for document V, and 5 is
\* a Resource object made for document B under the URI "u#".
ResourceTable ==
  << [uri |-> UndefStr, node |-> 1, baseUri |-> UndefStr],
     [uri |-> <<"u">>, node |-> 8, baseUri |-> <<"u">>],
     [uri |-> <<"v">>, node |-> 10, baseUri |-> <<"v">>],
     [uri |-> <<"v">>, node |-> 10, baseUri |-> <<"v">>],
     [uri |-> <<"u", "#">>, node |-> 8, baseUri |-> <<"u">>] >>

ResourceIds == 1..Len(ResourceTable)

\* No resource (`undefined` where a resource is expected).
NoResource == 0

\* Map.prototype.get on a map held as a function.
MapGet(map, key, default) == IF key \in DOMAIN map THEN map[key] ELSE default

\* Map.prototype.set.
MapSet(map, key, value) == (key :> value) @@ map

EmptyMap == <<>>

\* getResourceAnchor(resource, name) on the anchors of all resources.
getResourceAnchor(anch, resource, name) ==
  MapGet(MapGet(anch, resource, EmptyMap), name, Undef)

\* A setResource that keeps the mapping a node or URI has already.
setResourceMaps_keep(res, canon, resource) ==
  LET r == ResourceTable[resource]
      res1 == IF r.node \in DOMAIN res THEN res ELSE MapSet(res, r.node, resource)
      canon1 == IF r.uri = UndefStr \/ r.uri \in DOMAIN canon THEN canon
                ELSE MapSet(canon, r.uri, resource)
      alias == Slice(r.uri, 0, Len(r.uri) - 1)
      canon2 == IF r.uri # UndefStr /\ EndsWith(r.uri, "#") /\ alias \notin DOMAIN canon1
                THEN MapSet(canon1, alias, resource)
                ELSE canon1
  IN  <<res1, canon2>>

\* setResource(context, resource): the new <<resources, canonical>> maps.
setResourceMaps(res, canon, resource) ==
  LET r == ResourceTable[resource]
      res1 == MapSet(res, r.node, resource)
      canon1 == IF r.uri = UndefStr THEN canon ELSE MapSet(canon, r.uri, resource)
      canon2 == IF r.uri # UndefStr /\ EndsWith(r.uri, "#")
                THEN MapSet(canon1, Slice(r.uri, 0, Len(r.uri) - 1), resource)
                ELSE canon1
  IN  <<res1, canon2>>

\* The two loops of initContext over the resources supplied: each resource
\* is set in the node map under its node and, when it has a canonical URI,
\* in the canonical map under that URI and under the URI without a trailing
\* '#'. The result is <<resources, canonical>>.
RECURSIVE indexResources(_, _, _, _)
indexResources(res, canon, list, i) ==
  IF i > Len(list) THEN <<res, canon>>
  ELSE LET m == setResourceMaps(res, canon, list[i])
       IN  indexResources(m[1], m[2], list, i + 1)

\* options.resources in its three forms: an array of resources, a Map from
\* node to resource, a WeakMap from node to resource.
ResourceForms == {"array", "Map", "WeakMap"}

\* The `resources` part of initContext(context, options): the new
\* <<context.resources, context.canonical>>. `fresh` tells that
\* context.resources and context.canonical are undefined (res and canon are
\* empty then); `list` holds the resources of options.resources in iteration
\* order; `shared` tells that options.canonical is given, and optCanonical is
\* that map. An array, and a Map given to a context that has a node map,
\* are copied and indexed by URI; any other map is taken over as it is, with
\* options.canonical or an empty map as the canonical map.
initContextMaps(fresh, res, canon, form, list, shared, optCanonical) ==
  IF form = "array" \/ (form = "Map" /\ ~fresh)
  THEN indexResources(res, canon, list, 1)
  ELSE <<indexResources(EmptyMap, EmptyMap, list, 1)[1],
         IF shared THEN optCanonical ELSE EmptyMap>>

\* ------------------------------------------------------------------ frames

\* A frame of the processing stack; the stack is the sequence of frames from
\* the root frame to the top, each frame's parent being the one before it.
\* `id` is the identity of the frame object, which `context.stack !== frame`
\* compares; 0 where no code compares it.
Frame(baseUri, nodeKey, node) ==
  [node |-> node, baseUri |-> baseUri, nodeKey |-> nodeKey, id |-> 0]

\* createFrame(parent): a new frame object with every property undefined.
createFrame(id) == [Frame(UndefStr, UndefStr, Undef) EXCEPT !.id = id]

\* The identity of context.stack, 0 for `undefined`.
topFrame(stk) == IF stk = <<>> THEN 0 ELSE stk[Len(stk)].id

\* pushFrame(context): the new frame, of identity `frame`, has the current
\* top as its parent.
pushFrame(stk, frame) == Append(stk, createFrame(frame))

\* popFrame(context): context.stack = context.stack?.parent.
popFrame(stk) == IF stk = <<>> THEN <<>> ELSE SubSeq(stk, 1, Len(stk) - 1)

\* A currentBaseUri that looks at the given frame only.
currentBaseUri_top(stk) == IF stk = <<>> THEN UndefStr ELSE stk[Len(stk)].baseUri

\* currentBaseUri(context): the baseUri of the nearest frame that has one.
RECURSIVE currentBaseUri(_)
currentBaseUri(stk) ==
  IF stk = <<>> THEN UndefStr
  ELSE IF stk[Len(stk)].baseUri # UndefStr THEN stk[Len(stk)].baseUri
  ELSE currentBaseUri(SubSeq(stk, 1, Len(stk) - 1))

\* A currentLocation made of the key of the given frame alone.
currentLocation_own(res, stk) ==
  IF stk = <<>> THEN <<>>
  ELSE IF stk[Len(stk)].nodeKey # UndefStr
  THEN <<"#", "/">> \o escapePointer(stk[Len(stk)].nodeKey)
  ELSE <<"#">>

\* currentLocation(context, frame).
RECURSIVE currentLocation(_, _)
currentLocation(res, stk) ==
  IF stk = <<>> THEN <<>>
  ELSE LET frame == stk[Len(stk)]
           resource == IF frame.node.t = "obj"
                       THEN MapGet(res, frame.node.n, NoResource) ELSE NoResource
       IN  IF resource # NoResource /\ ResourceTable[resource].uri # UndefStr
           THEN ResourceTable[resource].uri
           ELSE LET up == IF Len(stk) > 1
                          THEN LET u == currentLocation(res, SubSeq(stk, 1, Len(stk) - 1))
                               IN  IF IndexOf(u, "#", 0) = -1 THEN u \o <<"#">> ELSE u
                          ELSE <<"#">>
                IN  IF frame.nodeKey # UndefStr
                    THEN up \o <<"/">> \o escapePointer(frame.nodeKey)
                    ELSE up

\* ----------------------------------------------------------------- pointer

\* resolvePointer(pointer, node), from the given offset on.
RECURSIVE resolvePointerFrom(_, _, _)
resolvePointerFrom(pointer, node, offset) ==
  IF offset >= Len(pointer) THEN Ok(node)
  ELSE LET slash == IndexOf(pointer, "/", offset + 1)
           end == IF slash = -1 THEN Len(pointer) ELSE slash
           token == unescapePointer(Slice(pointer, offset + 1, end))
           next == getChild(node, token)
       IN  IF token = UndefStr
           THEN Throw(TypeError(<<"Invalid JSON pointer escape sequence">>))
           ELSE IF next = Undef
           THEN Throw(ResolutionError(
                  <<"Property ">> \o token
                    \o <<" not found while resolving JSON pointer ">> \o pointer,
                  Slice(pointer, 0, end), NoCause))
           ELSE resolvePointerFrom(pointer, next, end)

resolvePointer(pointer, node) ==
  IF pointer # <<>> /\ ~StartsWith(pointer, "/")
  THEN Throw(TypeError(<<"Expected JSON pointer to start with /">>))
  ELSE resolvePointerFrom(pointer, node, 0)

\* A resolveResourceFragment that takes every fragment for an anchor name.
resolveResourceFragment_anchor(res, anch, stk, resource, fragment) ==
  IF Len(fragment) = 0 THEN Ok(Obj(ResourceTable[resource].node))
  ELSE LET node == getResourceAnchor(anch, resource, fragment)
       IN  IF node = Undef
           THEN Throw(ResolutionError(<<"Cannot resolve plain name fragment ">> \o fragment,
                                      currentLocation(res, stk), NoCause))
           ELSE Ok(node)

\* resolveResourceFragment(context, resource, fragment).
resolveResourceFragment(res, anch, stk, resource, fragment) ==
  IF Len(fragment) = 0 THEN Ok(Obj(ResourceTable[resource].node))
  ELSE IF StartsWith(fragment, "/")
  THEN resolvePointer(fragment, Obj(ResourceTable[resource].node))
  ELSE LET node == getResourceAnchor(anch, resource, fragment)
       IN  IF node = Undef
           THEN Throw(ResolutionError(
                  <<"Cannot resolve plain name fragment ">> \o fragment
                    \o <<" because the current resource has no corresponding anchor">>,
                  currentLocation(res, stk), NoCause))
           ELSE Ok(node)

\* A resolveResourceUri that yields `undefined` where no resource is found.
resolveResourceUriTail_lenient(res, anch, stk, resource, uri) ==
  LET fragment == SplitHash2(uri)[2]
  IN  IF resource = NoResource THEN Ok(Undef)
      ELSE IF fragment # UndefStr /\ Len(fragment) # 0
      THEN resolveResourceFragment(res, anch, stk, resource, fragment)
      ELSE Ok(Obj(ResourceTable[resource].node))

\* resolveResourceUri(context, resource, uri) from the point where the
\* canonical part has been looked up: `resource` is the resource found for a
\* non-empty canonical part (NoResource if unknown), or the base resource.
resolveResourceUriTail(res, anch, stk, resource, uri) ==
  LET parts == SplitHash2(uri)
      canonicalUri == parts[1]
      fragment == parts[2]
  IN  IF Len(canonicalUri) # 0 /\ resource = NoResource
      THEN Throw(ResolutionError(<<"Unknown resource ">> \o canonicalUri,
                                 currentLocation(res, stk), NoCause))
      ELSE IF Len(canonicalUri) = 0 /\ resource = NoResource
      THEN Throw(ResolutionError(
             <<"Cannot resolve relative URI reference ">> \o uri
               \o <<" because the stack has no base node">>,
             currentLocation(res, stk), NoCause))
      ELSE IF fragment # UndefStr /\ Len(fragment) # 0
      THEN resolveResourceFragment(res, anch, stk, resource, fragment)
      ELSE Ok(Obj(ResourceTable[resource].node))

\* resolveResourceUri(context, resource, uri) when no external resolver call
\* is needed: the canonical part is looked up in the canonical map only.
resolveResourceUriCached(res, canon, anch, stk, resource, uri) ==
  LET canonicalUri == SplitHash2(uri)[1]
  IN  resolveResourceUriTail(res, anch, stk,
        IF Len(canonicalUri) # 0 THEN MapGet(canon, canonicalUri, NoResource)
        ELSE resource,
        uri)

\* ------------------------------------------------------------------ context

VARIABLES
  resources,    \* context.resources: node identity -> resource
  canonical,    \* context.canonical: canonical URI -> resource
  anchors,      \* resource.anchors of every resource: resource -> name -> node
  hasResolver,  \* whether context.resolveResource is configured
  stack,        \* context.stack: the frames from the root frame to the top
  heap,         \* the Reference objects by identity: <<key, uri, target>> each
  references,   \* context.references: node -> Reference identity
  unresolved,   \* context.unresolved: the entries <<node, Reference>> in insertion order
  passes,       \* the resolveReferences calls in progress or finished
  nextId,       \* the identities given so far to nodes built by the rewriter
  shakes,       \* how many treeShakeReferences calls were made
  units,        \* the nestFrame calls made so far, in the order they began
  strays,       \* how many frames units of work pushed or popped on their own
  loads,        \* the resolveResource calls made directly that await the resolver
  invoked,      \* canonical URI -> how often the external resolver was called with it
  supplied,     \* the canonical URIs the external resolver returned a resource for
  ret           \* what the call made in the last step returned to its caller

frameVars == <<stack, units, strays>>
loadVars == <<loads, invoked, supplied>>
resVars == <<resources, canonical, anchors, hasResolver, frameVars>>
refVars == <<heap, references, unresolved>>
vars == <<arena, resources, canonical, anchors, hasResolver, stack, heap, references,
          unresolved, passes, nextId, shakes, units, strays, loads, invoked, supplied, ret>>

\* No Reference (`undefined` where a Reference is expected).
NoReference == 0

\* The resolveReferences calls that may be in progress at a time.
PassIds == {1}

\* A resolveReferences call. pc: "idle" (not called), "awaitResolver"
\* (suspended in resolveResource on the external resolver), "awaitUri"
\* (suspended on resolveResourceUri, whose result is settled), "done".
\* base: the resource argument. cursor: the Map iterator's position (the
\* last entry it produced). cur: the Reference being resolved. found: the
\* resource of the canonical part. early: whether `pending`, the result of
\* resolveResourceUri, is known already. cause: the ResolutionErrors
\* captured. out: "returned" or "threw", with err the error thrown. taken:
\* the References the call has removed from the unresolved map so far.
IdlePass ==
  [cause |-> <<>>, err |-> NoError, pc |-> "idle", base |-> NoResource, cursor |-> 0,
   cur |-> NoReference, found |-> NoResource, early |-> FALSE, pending |-> Ok(Undef),
   out |-> "none", taken |-> {}]

\* A call that has ended: its locals are gone, its outcome and the errors it
\* captured are kept.
Finished(pass, out, err) ==
  [IdlePass EXCEPT !.pc = "done", !.base = pass.base, !.cause = pass.cause,
                   !.out = out, !.err = err, !.taken = pass.taken]

\* The outcome of a call is delivered to its caller by the step that ends the
\* call, and is kept for the state that step leads to: any further step finds
\* the ended calls gone.
delivered(ps) == [p \in DOMAIN ps |-> IF ps[p].pc = "done" THEN IdlePass ELSE ps[p]]

\* createReference(key, uri).
createReference(key, uri) == [uri |-> uri, key |-> key, target |-> Undef]

\* getReference(context, node): the Reference's identity.
getReference(refs, node) == MapGet(refs, node, NoReference)

\* The nodes that are handed to registerReference / detectReference.
RegNodes == {3, 4}

\* The URIs that are handed to registerReference.
RegUris ==
  { <<"#", "/", "t">>,            \* node 2 of the base document
    <<"u", "#", "/", "t">>,       \* node 9 of document B
    <<"v">>,                      \* document V, known to the resolver only
    <<"#", "/", "z">> }           \* a pointer that does not resolve

\* A registerReference that takes the key and uri of a repeated call.
registerReferenceMaps_update(hp, refs, unres, node, key, uri) ==
  LET resolver == getReference(refs, node)
  IN  IF resolver = NoReference
      THEN <<Append(hp, createReference(key, uri)),
             MapSet(refs, node, Len(hp) + 1),
             Append(unres, <<node, Len(hp) + 1>>),
             Len(hp) + 1>>
      ELSE <<[hp EXCEPT ![resolver].key = key, ![resolver].uri = uri], refs, unres, resolver>>

\* A registerReference that tracks the node as unresolved on every call.
registerReferenceMaps_readd(hp, refs, unres, node, key, uri) ==
  LET resolver == getReference(refs, node)
  IN  IF resolver = NoReference
      THEN <<Append(hp, createReference(key, uri)),
             MapSet(refs, node, Len(hp) + 1),
             Append(unres, <<node, Len(hp) + 1>>),
             Len(hp) + 1>>
      ELSE <<hp, refs,
             IF \E i \in 1..Len(unres) : unres[i][1] = node THEN unres
             ELSE Append(unres, <<node, resolver>>),
             resolver>>

\* A registerReference that creates a Reference on every call.
registerReferenceMaps_always(hp, refs, unres, node, key, uri) ==
  <<Append(hp, createReference(key, uri)),
    MapSet(refs, node, Len(hp) + 1),
    Append(SelectSeq(unres, LAMBDA e : e[1] # node), <<node, Len(hp) + 1>>),
    Len(hp) + 1>>

\* registerReference(context, node, key, uri): the new <<heap, references,
\* unresolved>> and the Reference returned.
registerReferenceMaps(hp, refs, unres, node, key, uri) ==
  LET resolver == getReference(refs, node)
  IN  IF resolver = NoReference
      THEN LET id == Len(hp) + 1
           IN  <<Append(hp, createReference(key, uri)),
                 MapSet(refs, node, id),
                 Append(unres, <<node, id>>),
                 id>>
      ELSE <<hp, refs, unres, resolver>>

\* parseUriReference(uri) succeeds: the model's URI references are valid
\* unless they hold a space.
validUriReference(uri) == IndexOf(uri, " ", 0) = -1

Returned(op, node, value) == [node |-> node, value |-> value, op |-> op]

NoReturn == [op |-> "none"]

\* How many nodes were registered through registerReference.
NumRegistered(refs) == Cardinality({k \in DOMAIN refs : k.t = "obj"})

RegisterReference(node, key, uri) ==
  /\ \/ getReference(references, Obj(node)) # NoReference
     \/ NumRegistered(references) < MaxRefs
  /\ LET r == registerReferenceMaps(heap, references, unresolved, Obj(node), key, uri)
     IN  /\ heap' = r[1]
         /\ references' = r[2]
         /\ unresolved' = r[3]
         /\ ret' = Returned("registerReference", Obj(node), Ok(r[4]))
  /\ passes' = delivered(passes)
  /\ UNCHANGED <<arena, resVars, loadVars, nextId, shakes>>

\* How many nestFrame calls are made, and how many frames units of work push
\* or pop on their own.
MaxUnits == 2
MaxStrays == 1

\* What a unit of work returns or fulfils with, and what it throws or rejects
\* with.
WorkResult == Str(<<"result">>)
WorkError == PlainError(<<"test error">>)

StackReplaced == PlainError(<<"Stack frame was replaced during execution">>)

unnestFrame_unchecked(stk, frame, result) == <<popFrame(stk), Ok(result)>>

\* unnestFrame(context, frame, result): <<the stack after it, its outcome>>.
unnestFrame(stk, frame, result) ==
  IF topFrame(stk) # frame THEN <<stk, Throw(StackReplaced)>>
  ELSE <<popFrame(stk), Ok(result)>>

unwindFrame_kept(stk, frame, error) == <<stk, Throw(error)>>

unwindFrame_checked(stk, frame, error) ==
  IF topFrame(stk) = frame THEN <<popFrame(stk), Throw(error)>>
  ELSE <<stk, Throw(StackReplaced)>>

\* unwindFrame(context, frame, error): <<the stack after it, its outcome>>.
unwindFrame(stk, frame, error) ==
  <<IF topFrame(stk) = frame THEN popFrame(stk) ELSE stk, Throw(error)>>

\* resolveUri(baseUri, uri).href of tool-uri, for the references of the
\* model: a fragment-only reference replaces the fragment of the base, any
\* other reference is absolute already.
resolveUri(baseUri, uri) ==
  IF StartsWith(uri, "#")
  THEN LET h == IndexOf(baseUri, "#", 0)
       IN  (IF h = -1 THEN baseUri ELSE Slice(baseUri, 0, h)) \o uri
  ELSE uri

UriError == [msg |-> <<"Invalid URI reference">>, loc |-> UndefStr, cause |-> NoCause, cls |-> "UriError"]

\* A detectReference that registers the text of a keyword value of any kind.
detectReferenceMaps_coerce(hp, refs, unres, stk, node, key) ==
  LET uri == getChild(node, key)
  IN  IF ~isObject(node) \/ Entries(node) = <<>> THEN <<hp, refs, unres, Ok(NoReference)>>
      ELSE LET r == registerReferenceMaps(hp, refs, unres, node, key,
                      IF uri.t = "str" THEN uri.s ELSE <<"o">>)
           IN  <<r[1], r[2], r[3], Ok(r[4])>>

\* A detectReference that takes the base URI of the top frame only.
detectReferenceMaps_top(hp, refs, unres, stk, node, key) ==
  LET uri == getChild(node, key)
  IN  IF uri.t # "str" THEN <<hp, refs, unres, Ok(NoReference)>>
      ELSE LET baseUri == IF stk = <<>> THEN UndefStr ELSE stk[Len(stk)].baseUri
           IN  IF \/ ~validUriReference(uri.s)
                  \/ baseUri # UndefStr /\ ~validUriReference(baseUri)
               THEN <<hp, refs, unres, Throw(UriError)>>
               ELSE LET r == registerReferenceMaps(hp, refs, unres, node, key,
                               IF baseUri # UndefStr THEN resolveUri(baseUri, uri.s)
                               ELSE uri.s)
                    IN  <<r[1], r[2], r[3], Ok(r[4])>>

\* detectReference(context, node, key): <<heap, references, unresolved,
\* outcome>>, the outcome being the Reference returned (NoReference for
\* `undefined`) or the error thrown. resolveUri parses the base URI and the
\* reference and parseUriReference the reference: each throws a UriError on
\* a syntax error.
detectReferenceMaps(hp, refs, unres, stk, node, key) ==
  LET uri == getChild(node, key)
  IN  IF uri.t # "str" THEN <<hp, refs, unres, Ok(NoReference)>>
      ELSE LET baseUri == currentBaseUri(stk)
           IN  IF \/ ~validUriReference(uri.s)
                  \/ baseUri # UndefStr /\ ~validUriReference(baseUri)
               THEN <<hp, refs, unres, Throw(UriError)>>
               ELSE LET r == registerReferenceMaps(hp, refs, unres, node, key,
                               IF baseUri # UndefStr THEN resolveUri(baseUri, uri.s)
                               ELSE uri.s)
                    IN  <<r[1], r[2], r[3], Ok(r[4])>>

\* detectReference(context, node, key) on any value `node`.
DetectReference(node, key) ==
  LET r == detectReferenceMaps(heap, references, unresolved, stack, node, key)
  IN  /\ NumRegistered(r[2]) <= MaxRefs
      /\ heap' = r[1]
      /\ references' = r[2]
      /\ unresolved' = r[3]
      /\ ret' = Returned("detectReference", <<node, key>>, r[4])
      /\ passes' = delivered(passes)
  /\ UNCHANGED <<arena, resVars, loadVars, nextId, shakes>>

\* detectReferences(context, node, keys) with the frames it nests: the state
\* is <<heap, references, unresolved, outcome, stack, visits>>; an error
\* thrown ends the walk. `visits` records, for every call of
\* detectReferences, the node it was called on, the stack it found and the
\* call that made it (0 for the outermost call).
RECURSIVE detectReferencesMaps(_, _, _, _)
RECURSIVE detectChildren(_, _, _, _, _)
RECURSIVE detectKeys(_, _, _, _)
detectKeys(st, node, keys, i) ==
  IF i > Len(keys) \/ ~st[4].ok THEN st
  ELSE LET r == detectReferenceMaps(st[1], st[2], st[3], st[5], node, keys[i])
       IN  detectKeys(<<r[1], r[2], r[3], r[4], st[5], st[6]>>, node, keys, i + 1)

detectReferencesMaps(st, node, keys, parent) ==
  LET me == Len(st[6]) + 1
      visit == [node |-> node, stk |-> st[5], parent |-> parent]
      here == detectKeys([st EXCEPT ![6] = Append(st[6], visit)], node, keys, 1)
  IN  IF ~here[4].ok THEN here
      ELSE IF isObject(node) THEN detectChildren(here, node, keys, 1, me)
      ELSE here

detectChildren(st, node, keys, i, me) ==
  IF i > Len(Entries(node)) \/ ~st[4].ok THEN st
  ELSE LET key == Entries(node)[i][1]
           child == Entries(node)[i][2]
           \* nestFrame: push a frame, set its key and node, walk, then
           \* unnest the frame or unwind it.
           frame == MaxUnits + Len(st[5]) + 1
           pushed == pushFrame(st[5], frame)
           inside == [pushed EXCEPT ![Len(pushed)].nodeKey = key,
                                    ![Len(pushed)].node = child]
           in == detectReferencesMaps([st EXCEPT ![5] = inside], child, keys, me)
           out == IF in[4].ok THEN unnestFrame(in[5], frame, Undef)
                  ELSE unwindFrame(in[5], frame, in[4].err)
       IN  detectChildren(<<in[1], in[2], in[3], out[2], out[1], in[6]>>,
                          node, keys, i + 1, me)

DetectReferences(node, keys) ==
  LET r == detectReferencesMaps(<<heap, references, unresolved, Ok(NoReference), stack, <<>> >>,
                                Obj(node), keys, 0)
  IN  /\ NumRegistered(r[2]) <= MaxRefs
      /\ heap' = r[1]
      /\ references' = r[2]
      /\ unresolved' = r[3]
      /\ stack' = r[5]
      /\ ret' = [node |-> <<Obj(node), keys>>, value |-> IF r[4].ok THEN Ok(Undef) ELSE r[4],
                 op |-> "detectReferences", visits |-> r[6]]
      /\ passes' = delivered(passes)
  /\ UNCHANGED <<arena, resources, canonical, anchors, hasResolver, units, strays,
                 loadVars, nextId, shakes>>

\* -------------------------------------------------------- resolveReferences

\* What the external resolver may do when called with a canonical URI: any
\* injected function is allowed, and only document V can be supplied.
ResolverOutcomes(uri) ==
  {"undefined", "throwError", "throwResolution"}
    \cup (IF uri = ResourceTable[3].uri THEN {"resource"} ELSE {})

\* "\n  " + error.message for each captured error.
RECURSIVE causeLines(_)
causeLines(cause) ==
  IF cause = <<>> THEN <<>>
  ELSE <<"\n  ">> \o Head(cause).msg \o causeLines(Tail(cause))

\* An end of resolveReferences that reports the first captured error only.
finishPass_first(res, stk, pass) ==
  IF Len(pass.cause) >= 1
  THEN Finished(pass, "threw", pass.cause[1])
  ELSE Finished(pass, "returned", NoError)

\* An end of resolveReferences that lists the captured errors latest first.
finishPass_reversed(res, stk, pass) ==
  LET n == Len(pass.cause)
      cause == [i \in 1..n |-> pass.cause[n + 1 - i]]
  IN  IF n >= 2
      THEN Finished(pass, "threw",
             ResolutionError(
               <<"Unable to resolve multiple references">> \o causeLines(cause),
               currentLocation(res, stk), cause))
      ELSE IF n = 1
      THEN Finished(pass, "threw", pass.cause[1])
      ELSE Finished(pass, "returned", NoError)

\* The end of resolveReferences, after the loop.
finishPass(res, stk, pass) ==
  IF Len(pass.cause) >= 2
  THEN Finished(pass, "threw",
         ResolutionError(
           <<"Unable to resolve multiple references">> \o causeLines(pass.cause),
           currentLocation(res, stk), pass.cause))
  ELSE IF Len(pass.cause) = 1
  THEN Finished(pass, "threw", pass.cause[1])
  ELSE Finished(pass, "returned", NoError)

\* The entries the Map iterator of a pass has still to produce: those
\* inserted after the entry it produced last.
entriesAfter(unres, cursor) == SelectSeq(unres, LAMBDA e : e[2] > cursor)

\* A delete that leaves the entry in place.
mapDelete_keep(unres, node) == unres

\* unresolved.delete(node).
mapDelete(unres, node) == SelectSeq(unres, LAMBDA e : e[1] # node)

\* An assignment of the target that is lost.
setTarget_lost(hp, reference, node) == hp

\* reference.target = node.
setTarget(hp, reference, node) == [hp EXCEPT ![reference].target = node]

\* A catch clause that captures every error.
isResolutionError_any(error) == TRUE

\* error instanceof ResolutionError.
isResolutionError(error) == error.cls = "ResolutionError"

\* A lookup that never finds the resource.
canonicalGet_miss(canon, canonicalUri) == NoResource

\* context.canonical?.get(canonicalUri) in resolveResource.
canonicalGet(canon, canonicalUri) == MapGet(canon, canonicalUri, NoResource)

\* A resolveResource that returns what the resolver gave without registering
\* it.
registerLoaded_skip(res, canon, resource) == <<res, canon>>

\* `if (resource !== undefined) setResource(context, resource)` in
\* resolveResource: <<context.resources, context.canonical>>.
registerLoaded(res, canon, resource) ==
  IF resource = NoResource THEN <<res, canon>>
  ELSE setResourceMaps(res, canon, resource)

\* context.resolveResource(canonicalUri, context) is called.
called(inv, canonicalUri) == MapSet(inv, canonicalUri, MapGet(inv, canonicalUri, 0) + 1)

\* The calls of the external resolver after a turn of the loop that left the
\* pass in the state `pass`.
afterTurn(inv, hp, pass) ==
  IF pass.pc = "awaitResolver" THEN called(inv, SplitHash2(hp[pass.cur].uri)[1]) ELSE inv

\* One turn of the for-loop of resolveReferences up to its await, or the end
\* of the call: <<pass, unresolved>>.
takeNext(res, canon, anch, hasRes, stk, hp, unres, pass) ==
  LET rest == entriesAfter(unres, pass.cursor)
  IN  IF rest = <<>> THEN <<finishPass(res, stk, pass), unres>>
      ELSE LET node == rest[1][1]
               reference == rest[1][2]
               uri == hp[reference].uri
               canonicalUri == SplitHash2(uri)[1]
               hit == canonicalGet(canon, canonicalUri)
               p1 == [pass EXCEPT !.cursor = reference, !.cur = reference,
                                  !.taken = @ \cup {reference}]
           IN  <<IF Len(canonicalUri) = 0
                 THEN \* no await inside resolveResourceUri: it has settled
                      [p1 EXCEPT !.pc = "awaitUri", !.early = TRUE, !.found = pass.base,
                         !.pending = resolveResourceUriTail(res, anch, stk, pass.base, uri)]
                 ELSE IF hit = NoResource /\ hasRes
                 THEN [p1 EXCEPT !.pc = "awaitResolver", !.early = FALSE, !.found = NoResource]
                 ELSE [p1 EXCEPT !.pc = "awaitUri", !.early = FALSE, !.found = hit],
                 mapDelete(unres, node)>>

\* resolveReferences(context, resource) is called: it runs up to its first
\* await, or to its end when nothing is unresolved.
ResolveReferences(p, resource) ==
  /\ passes[p].pc \in {"idle", "done"}
  /\ LET r == takeNext(resources, canonical, anchors, hasResolver, stack, heap, unresolved,
                       [IdlePass EXCEPT !.base = resource])
     IN  /\ passes' = [delivered(passes) EXCEPT ![p] = r[1]]
         /\ unresolved' = r[2]
         /\ invoked' = afterTurn(invoked, heap, r[1])
  /\ ret' = NoReturn
  /\ UNCHANGED <<arena, resVars, loads, supplied, heap, references, nextId, shakes>>

\* The external resolver settles: resolveResource registers the resource it
\* returned, and resolveResourceUri goes on with the fragment once resumed.
ResolverSettles(p, outcome) ==
  /\ passes[p].pc = "awaitResolver"
  /\ LET uri == heap[passes[p].cur].uri
         canonicalUri == SplitHash2(uri)[1]
     IN  /\ outcome \in ResolverOutcomes(canonicalUri)
         /\ IF outcome = "resource"
            THEN LET m == registerLoaded(resources, canonical, 3)
                 IN  /\ resources' = m[1]
                     /\ canonical' = m[2]
                     /\ supplied' = supplied \cup {canonicalUri}
                     /\ passes' = [delivered(passes) EXCEPT ![p].pc = "awaitUri", ![p].found = 3]
            ELSE /\ UNCHANGED <<resources, canonical, supplied>>
                 /\ passes' =
                      [delivered(passes) EXCEPT
                         ![p].pc = "awaitUri",
                         ![p].early = outcome # "undefined",
                         ![p].pending =
                            IF outcome = "throwError"
                            THEN Throw(PlainError(<<"Failed to load resource">>))
                            ELSE IF outcome = "throwResolution"
                            THEN Throw(ResolutionError(<<"Resolver failed">>, <<>>, NoCause))
                            ELSE @]
  /\ ret' = NoReturn
  /\ UNCHANGED <<arena, anchors, hasResolver, frameVars, loads, invoked, refVars, nextId,
                 shakes>>

\* resolveReferences resumes after `await resolveResourceUri(...)`: the
\* target is set or the error is captured or rethrown, and the loop goes on
\* to its next await or to the end of the call.
PassResumes(p) ==
  /\ passes[p].pc = "awaitUri"
  /\ LET pass == passes[p]
         result == IF pass.early THEN pass.pending
                   ELSE resolveResourceUriTail(resources, anchors, stack, pass.found,
                                               heap[pass.cur].uri)
     IN  IF result.ok
         THEN LET hp == setTarget(heap, pass.cur, result.v)
                  r == takeNext(resources, canonical, anchors, hasResolver, stack, hp,
                                unresolved, pass)
              IN  /\ heap' = hp
                  /\ passes' = [delivered(passes) EXCEPT ![p] = r[1]]
                  /\ unresolved' = r[2]
                  /\ invoked' = afterTurn(invoked, hp, r[1])
         ELSE IF ~isResolutionError(result.err)
         THEN /\ passes' = [delivered(passes) EXCEPT ![p] = Finished(pass, "threw", result.err)]
              /\ UNCHANGED <<heap, unresolved, invoked>>
         ELSE LET r == takeNext(resources, canonical, anchors, hasResolver, stack, heap,
                                unresolved, [pass EXCEPT !.cause = Append(@, result.err)])
              IN  /\ passes' = [delivered(passes) EXCEPT ![p] = r[1]]
                  /\ unresolved' = r[2]
                  /\ invoked' = afterTurn(invoked, heap, r[1])
                  /\ UNCHANGED heap
  /\ ret' = NoReturn
  /\ UNCHANGED <<arena, resVars, loads, supplied, references, nextId, shakes>>

\* ---------------------------------------------------------- resolveResource

\* The resolveResource calls made directly that may be in progress at a time.
LoadIds == {1, 2}

\* How often a direct call may hand the same canonical URI to the resolver.
MaxInvoked == 2

\* The canonical URIs handed to resolveResource: document B, registered from
\* the start; document V; and a second address of document V.
LoadUris == { <<"u">>, <<"v">>, <<"w">> }

\* The resources the external resolver may return for a canonical URI: for
\* V's URI a new Resource object for document V at each call; for V's second
\* address document V under its own URI, or document A, which has none.
Supplies(canonicalUri) ==
  IF canonicalUri = <<"v">> THEN {3, 4}
  ELSE IF canonicalUri = <<"w">> THEN {1, 3}
  ELSE {}

\* No call in progress. uri: the canonical URI handed to resolveResource;
\* ref and base: the URI reference and the resource handed to
\* resolveResourceUri when the call came through it.
IdleLoad == [uri |-> UndefStr, pc |-> "idle", base |-> NoResource, ref |-> UndefStr]

\* A resolveResource call that is fulfilled with a resource or `undefined`.
Loaded(resource) == [ok |-> TRUE, err |-> NoError, resource |-> resource]

\* resolveResource(context, canonicalUri) is called: it returns what the
\* canonical map holds, or awaits the external resolver.
ResolveResource(c, canonicalUri) ==
  /\ loads[c].pc = "idle"
  /\ LET resource == canonicalGet(canonical, canonicalUri)
     IN  IF resource = NoResource /\ hasResolver
         THEN /\ MapGet(invoked, canonicalUri, 0) < MaxInvoked
              /\ invoked' = called(invoked, canonicalUri)
              /\ loads' = [loads EXCEPT ![c] = [IdleLoad EXCEPT !.pc = "awaitResolver",
                                                                !.uri = canonicalUri]]
              /\ ret' = NoReturn
         ELSE /\ ret' = Returned("resolveResource", canonicalUri, Loaded(resource))
              /\ UNCHANGED <<loads, invoked>>
  /\ passes' = delivered(passes)
  /\ UNCHANGED <<arena, resVars, supplied, refVars, nextId, shakes>>

\* The external resolver returns a resource or `undefined` to a direct call:
\* resolveResource registers the resource and returns it, to its caller or to
\* resolveResourceUri, which goes on with the fragment.
ResolverReturns(c, resource) ==
  /\ loads[c].pc = "awaitResolver"
  /\ resource \in Supplies(loads[c].uri) \cup {NoResource}
  /\ LET m == registerLoaded(resources, canonical, resource)
     IN  /\ resources' = m[1]
         /\ canonical' = m[2]
  /\ supplied' = IF resource = NoResource THEN supplied ELSE supplied \cup {loads[c].uri}
  /\ loads' = [loads EXCEPT ![c] = IdleLoad]
  /\ ret' = IF loads[c].ref = UndefStr
            THEN Returned("resolveResource", loads[c].uri, Loaded(resource))
            ELSE Returned("resolveResourceUri", <<loads[c].base, loads[c].ref>>,
                          resolveResourceUriTail(resources', anchors, stack, resource,
                                                 loads[c].ref))
  /\ passes' = delivered(passes)
  /\ UNCHANGED <<arena, anchors, hasResolver, frameVars, invoked, refVars, nextId, shakes>>

\* A resolveResource that reports the failure of the resolver as a
\* ResolutionError of its own.
ResolverThrows_wrapped(c) ==
  /\ loads[c].pc = "awaitResolver"
  /\ loads' = [loads EXCEPT ![c] = IdleLoad]
  /\ ret' = Returned("resolveResource", loads[c].uri,
                     Throw(ResolutionError(<<"Failed to load resource">>, <<>>, NoCause)))
  /\ passes' = delivered(passes)
  /\ UNCHANGED <<arena, resVars, invoked, supplied, refVars, nextId, shakes>>

\* The external resolver fails: the direct call is rejected with its error,
\* and so is the resolveResourceUri call it came through.
ResolverThrows(c) ==
  /\ loads[c].pc = "awaitResolver"
  /\ loads' = [loads EXCEPT ![c] = IdleLoad]
  /\ ret' = IF loads[c].ref = UndefStr
            THEN Returned("resolveResource", loads[c].uri,
                          Throw(PlainError(<<"Failed to load resource">>)))
            ELSE Returned("resolveResourceUri", <<loads[c].base, loads[c].ref>>,
                          Throw(PlainError(<<"Failed to load resource">>)))
  /\ passes' = delivered(passes)
  /\ UNCHANGED <<arena, resVars, invoked, supplied, refVars, nextId, shakes>>

\* A setResourceAnchor on a map of anchors that all resources share.
setResourceAnchorMaps_shared(anch, resource, name, anchor) ==
  [r \in ResourceIds |-> MapSet(MapGet(anch, r, EmptyMap), name, anchor)]

\* setResourceAnchor(resource, name, anchor): the anchors of all resources.
setResourceAnchorMaps(anch, resource, name, anchor) ==
  MapSet(anch, resource, MapSet(MapGet(anch, resource, EmptyMap), name, anchor))

\* setResourceAnchor(resource, name, anchor) is called.
SetResourceAnchor(resource, name, anchor) ==
  /\ anchors' = setResourceAnchorMaps(anchors, resource, name, anchor)
  /\ ret' = Returned("setResourceAnchor", <<resource, name>>, Ok(anchor))
  /\ passes' = delivered(passes)
  /\ UNCHANGED <<arena, resources, canonical, hasResolver, frameVars, loadVars, refVars,
                 nextId, shakes>>

\* resolveResourceFragment(context, resource, fragment) is called.
ResolveResourceFragment(resource, fragment) ==
  /\ ret' = Returned("resolveResourceFragment", <<resource, fragment>>,
                     resolveResourceFragment(resources, anchors, stack, resource, fragment))
  /\ passes' = delivered(passes)
  /\ UNCHANGED <<arena, resVars, loadVars, refVars, nextId, shakes>>

\* resolveResourceUri(context, resource, uri) is called: it runs to its end,
\* or awaits the external resolver inside resolveResource.
ResolveResourceUri(c, resource, uri) ==
  /\ loads[c].pc = "idle"
  /\ LET canonicalUri == SplitHash2(uri)[1]
         found == IF Len(canonicalUri) # 0 THEN canonicalGet(canonical, canonicalUri)
                  ELSE resource
     IN  IF Len(canonicalUri) # 0 /\ found = NoResource /\ hasResolver
         THEN /\ MapGet(invoked, canonicalUri, 0) < MaxInvoked
              /\ invoked' = called(invoked, canonicalUri)
              /\ loads' = [loads EXCEPT ![c] = [uri |-> canonicalUri, pc |-> "awaitResolver",
                                                base |-> resource, ref |-> uri]]
              /\ ret' = NoReturn
         ELSE /\ ret' = Returned("resolveResourceUri", <<resource, uri>>,
                                 resolveResourceUriTail(resources, anchors, stack, found, uri))
              /\ UNCHANGED <<loads, invoked>>
  /\ passes' = delivered(passes)
  /\ UNCHANGED <<arena, resVars, supplied, refVars, nextId, shakes>>

\* setResource(context, resource) is called.
SetResource(resource) ==
  /\ LET m == setResourceMaps(resources, canonical, resource)
     IN  /\ resources' = m[1]
         /\ canonical' = m[2]
  /\ ret' = Returned("setResource", resource, Ok(Undef))
  /\ passes' = delivered(passes)
  /\ UNCHANGED <<arena, anchors, hasResolver, frameVars, loadVars, refVars, nextId, shakes>>

\* The resource lists handed to createContext and initContext: document B
\* alone; document A, which has no canonical URI, and document B under
\* "u#"; documents B and V.
ResourceLists == { <<2>>, <<1, 5>>, <<2, 3>> }

\* initContext(context, {resources, canonical}) on the context in use, the
\* resources given in the form `form`; options.canonical, when given, is the
\* index by URI of the same resources.
InitContext(form, list, shared) ==
  /\ LET m == initContextMaps(FALSE, resources, canonical, form, list, shared,
                              indexResources(EmptyMap, EmptyMap, list, 1)[2])
     IN  /\ resources' = m[1]
         /\ canonical' = m[2]
  /\ ret' = Returned("initContext", <<form, list, shared>>, Ok(Undef))
  /\ passes' = delivered(passes)
  /\ UNCHANGED <<arena, anchors, hasResolver, frameVars, loadVars, refVars, nextId, shakes>>

\* ------------------------------------------------------ treeShakeReferences

\* The state of one treeShakeReferences call. visited, refs (target -> name)
\* and defs (name -> rewritten target, Undef while it is being computed) are
\* the locals of the code; defsDefined tells `defs` from `undefined`;
\* names lists the keys of defs in insertion order; registered lists the
\* References set in context.references for the nodes built, each with the
\* node built and the target of the Reference it replaces; origin tells, for
\* each key of defs, the target whose rewrite it holds; id is the identity
\* of the node built last. fuel is the recursion budget left and
\* diverged tells that it ran out. visits and computes count, per node and
\* per name, the runs of the body of collectReferences and the rewrites of a
\* definition. transform is options.transform ("none" for undefined) and
\* calls lists its calls, each with the node passed and the node returned.
\* Locals whose visited set is the one the call before left.
ShakeStart_stale(id) ==
  [id |-> id, refs |-> EmptyMap, visits |-> EmptyMap,
   visited |-> IF ret.op = "treeShakeReferences" THEN ret.value.st.visited ELSE {},
   defs |-> EmptyMap, defsDefined |-> FALSE, names |-> <<>>, registered |-> <<>>,
   origin |-> EmptyMap, fuel |-> Fuel, diverged |-> FALSE, computes |-> EmptyMap,
   transform |-> "none", calls |-> <<>>]

ShakeStart(id) ==
  [id |-> id, refs |-> EmptyMap, visits |-> EmptyMap, visited |-> {}, defs |-> EmptyMap,
   defsDefined |-> FALSE, names |-> <<>>, registered |-> <<>>, origin |-> EmptyMap, fuel |-> Fuel,
   diverged |-> FALSE, computes |-> EmptyMap, transform |-> "none", calls |-> <<>>]

\* String(counter) for the counters the model reaches.
Digits == <<"1", "2", "3", "4", "5", "6", "7", "8", "9">>

\* The loop `while (key in defs) { key = name + counter; counter += 1 }`.
RECURSIVE uniqueKey(_, _, _, _)
uniqueKey(defs, name, key, counter) ==
  IF key \in DOMAIN defs /\ counter <= Len(Digits)
  THEN uniqueKey(defs, name, name \o <<Digits[counter]>>, counter + 1)
  ELSE key

\* The name given to a target: the URI after its last '/' or '#', made
\* unique among the keys of defs when defs is defined.
targetName(st, uri) ==
  LET name == Slice(uri, Max(LastIndexOf(uri, "/"), LastIndexOf(uri, "#")) + 1, Len(uri))
  IN  IF st.defsDefined THEN uniqueKey(st.defs, name, name, 1) ELSE name

\* A visited set that remembers nothing.
has_never(visited, node) == FALSE

\* visited.has(node).
has(visited, node) == node \in visited

\* A relocated address without its separator.
relocatedUri_bare(defsUri, refName) == defsUri \o escapePointer(refName)

\* options.defsUri + "/" + escapePointer(refName).
relocatedUri(defsUri, refName) == defsUri \o <<"/">> \o escapePointer(refName)

\* A definition that is computed and not stored.
storeDef_lost(defs, refName, node) == defs

\* defs[refName] = rewriteNode(ref.target).
storeDef(defs, refName, node) == MapSet(defs, refName, node)

\* The Reference of a node (NoReference if none), as a record.
refOf(hp, refs, node) ==
  LET id == getReference(refs, node)
  IN  IF id = NoReference THEN createReference(UndefStr, UndefStr) ELSE hp[id]

\* A root test that finds no root.
includes_never(roots, v) == FALSE

\* options.roots.includes(target).
includes(roots, v) == \E i \in 1..Len(roots) : roots[i] = v

RECURSIVE collectReferences(_, _, _, _, _)
RECURSIVE collectValues(_, _, _, _, _, _)
collectReferences(hp, refs, roots, st, node) ==
  IF st.diverged THEN st
  ELSE IF st.fuel = 0 THEN [st EXCEPT !.diverged = TRUE]
  ELSE IF ~isObject(node) \/ has(st.visited, node) THEN [st EXCEPT !.fuel = @ - 1]
  ELSE
    LET st1 == [st EXCEPT !.fuel = @ - 1, !.visited = @ \cup {node},
                          !.visits = MapSet(@, node, MapGet(@, node, 0) + 1)]
        ref == refOf(hp, refs, node)
        st2 == IF ref.target # Undef /\ ~includes(roots, ref.target)
               THEN collectReferences(hp, refs, roots,
                      IF ref.target \notin DOMAIN st1.refs
                      THEN [st1 EXCEPT !.refs = MapSet(@, ref.target, targetName(st1, ref.uri))]
                      ELSE st1,
                      ref.target)
               ELSE st1
    IN  collectValues(hp, refs, roots, st2, node, 1)

collectValues(hp, refs, roots, st, node, i) ==
  IF i > Len(Entries(node)) THEN st
  ELSE collectValues(hp, refs, roots,
         collectReferences(hp, refs, roots, st, Entries(node)[i][2]), node, i + 1)

\* The key and value that the transform of the model adds.
Tag == <<"d">>

\* options.transform(node) for the transform "tag", which returns a copy of
\* an object with one more entry, as `{...node, description: ...}` does.
transformed(transform, node) ==
  IF transform = "tag" /\ node.t = "newobj"
  THEN [node EXCEPT !.c = Append(@, <<Tag, Str(<<"!">>)>>)]
  ELSE node

\* A transform whose return value is dropped.
applyTransform_dropped(st, node) ==
  IF st.transform = "none" THEN <<st, node>>
  ELSE <<[st EXCEPT !.calls = Append(@, <<node, transformed(st.transform, node)>>)], node>>

\* if (options.transform !== undefined) node = options.transform(node).
applyTransform(st, node) ==
  IF st.transform = "none" THEN <<st, node>>
  ELSE <<[st EXCEPT !.calls = Append(@, <<node, transformed(st.transform, node)>>)],
         transformed(st.transform, node)>>

\* rewriteNode(node): <<state, rewritten node>>.
RECURSIVE rewriteNode(_, _, _, _, _)
RECURSIVE rewriteValues(_, _, _, _, _, _, _)
rewriteNode(hp, refs, defsUri, st, node) ==
  IF st.diverged THEN <<st, Undef>>
  ELSE IF st.fuel = 0 THEN <<[st EXCEPT !.diverged = TRUE], Undef>>
  ELSE
    LET st0 == [st EXCEPT !.fuel = @ - 1]
        ref == refOf(hp, refs, node)
        named == ref.target # Undef /\ ref.target \in DOMAIN st0.refs
    IN  IF named
        THEN LET refName == st0.refs[ref.target]
                 \* defs ??= {}; the definition is rewritten on first encounter
                 first == refName \notin DOMAIN st0.defs
                 st1 == [st0 EXCEPT !.defsDefined = TRUE,
                                    !.defs = IF first THEN MapSet(@, refName, Undef) ELSE @,
                                    !.names = IF first THEN Append(@, refName) ELSE @,
                                    !.origin = IF first THEN MapSet(@, refName, ref.target)
                                               ELSE @]
                 rw == IF first THEN rewriteNode(hp, refs, defsUri, st1, ref.target)
                       ELSE <<st1, Undef>>
                 st2 == IF first
                        THEN [rw[1] EXCEPT !.defs = storeDef(@, refName, rw[2]),
                                           !.computes = MapSet(@, refName,
                                                               MapGet(@, refName, 0) + 1)]
                        ELSE st1
                 refUri == relocatedUri(defsUri, refName)
                 new == New(st2.id + 1, FALSE, << <<ref.key, Str(refUri)>> >>)
                 reference == [uri |-> refUri, key |-> ref.key, target |-> st2.defs[refName]]
             IN  applyTransform([st2 EXCEPT !.id = @ + 1,
                                            !.registered = Append(@, <<new, reference, ref.target>>)],
                                 new)
        ELSE IF isObject(node)
        THEN LET rw == rewriteValues(hp, refs, defsUri, [st0 EXCEPT !.id = @ + 1],
                                     node, 1, <<>>)
             IN  applyTransform(rw[1], New(st0.id + 1, isArray(node), rw[2]))
        ELSE applyTransform(st0, node)

rewriteValues(hp, refs, defsUri, st, node, i, acc) ==
  IF i > Len(Entries(node)) THEN <<st, acc>>
  ELSE LET key == Entries(node)[i][1]
           value == Entries(node)[i][2]
           rw == IF isObject(value) THEN rewriteNode(hp, refs, defsUri, st, value)
                 ELSE <<st, value>>
       IN  rewriteValues(hp, refs, defsUri, rw[1], node, i + 1,
                         Append(acc, <<key, rw[2]>>))

RECURSIVE collectRoots(_, _, _, _, _)
collectRoots(hp, refs, roots, st, i) ==
  IF i > Len(roots) THEN st
  ELSE collectRoots(hp, refs, roots, collectReferences(hp, refs, roots, st, roots[i]), i + 1)

RECURSIVE rewriteRoots(_, _, _, _, _, _, _)
rewriteRoots(hp, refs, roots, defsUri, st, i, acc) ==
  IF i > Len(roots) THEN <<st, acc>>
  ELSE LET rw == rewriteNode(hp, refs, defsUri, st, roots[i])
       IN  rewriteRoots(hp, refs, roots, defsUri, rw[1], i + 1, Append(acc, rw[2]))

\* treeShakeReferences(context, {roots, defsUri}): the final state of the
\* call with the rewritten roots.
treeShakeWith(hp, refs, roots, defsUri, id, transform) ==
  LET marked == collectRoots(hp, refs, roots,
                             [ShakeStart(id) EXCEPT !.transform = transform], 1)
      rw == rewriteRoots(hp, refs, roots, defsUri, marked, 1, <<>>)
  IN  [st |-> rw[1], roots |-> rw[2], marked |-> marked.refs]

\* treeShakeReferences(context, {roots, defsUri}), no transform given.
treeShake(hp, refs, roots, defsUri, id) ==
  treeShakeWith(hp, refs, roots, defsUri, id, "none")

\* The root lists handed to treeShakeReferences.
RootChoices == { <<Obj(1)>>, <<Obj(3), Obj(4)>>, <<Obj(6), Obj(3)>> }

\* options.defsUri.
DefsUri == <<"#", "/", "d">>

\* context.references.set(node, reference) for every node built.
RECURSIVE registerBuilt(_, _, _, _)
registerBuilt(hp, refs, registered, i) ==
  IF i > Len(registered) THEN <<hp, refs>>
  ELSE registerBuilt(Append(hp, registered[i][2]),
                     MapSet(refs, registered[i][1], Len(hp) + 1),
                     registered, i + 1)

\* treeShakeReferences(context, {roots, defsUri, transform}).
TreeShakeTransform(roots, defsUri, transform) ==
  /\ shakes < MaxShakes
  /\ LET r == treeShakeWith(heap, references, roots, defsUri, nextId, transform)
         m == registerBuilt(heap, references, r.st.registered, 1)
     IN  /\ heap' = m[1]
         /\ references' = m[2]
         /\ nextId' = r.st.id
         /\ ret' = Returned("treeShakeTransform", roots, r)
  /\ shakes' = shakes + 1
  /\ passes' = delivered(passes)
  /\ UNCHANGED <<arena, resVars, loadVars, unresolved>>

\* A treeShakeReferences that rewrites the relocated reference nodes in
\* place.
TreeShakeReferences_inplace(roots, defsUri) ==
  /\ shakes < MaxShakes
  /\ LET r == treeShake(heap, references, roots, defsUri, nextId)
         m == registerBuilt(heap, references, r.st.registered, 1)
     IN  /\ heap' = m[1]
         /\ references' = m[2]
         /\ nextId' = r.st.id
         /\ ret' = Returned("treeShakeReferences", roots, r)
         /\ arena' =
              [n \in NodeIds |->
                 LET ref == refOf(heap, references, Obj(n))
                 IN  IF ref.target \in DOMAIN r.marked /\ Obj(n) \in r.st.visited
                     THEN [arena[n] EXCEPT
                             !.c = << <<ref.key,
                                        Str(relocatedUri(defsUri, r.marked[ref.target]))>> >>]
                     ELSE arena[n]]
  /\ shakes' = shakes + 1
  /\ passes' = delivered(passes)
  /\ UNCHANGED <<resVars, loadVars, unresolved>>

TreeShakeReferences(roots, defsUri) ==
  /\ shakes < MaxShakes
  /\ LET r == treeShake(heap, references, roots, defsUri, nextId)
         m == registerBuilt(heap, references, r.st.registered, 1)
     IN  /\ heap' = m[1]
         /\ references' = m[2]
         /\ nextId' = r.st.id
         /\ ret' = Returned("treeShakeReferences", roots, r)
  /\ shakes' = shakes + 1
  /\ passes' = delivered(passes)
  /\ UNCHANGED <<arena, resVars, loadVars, unresolved>>

\* ------------------------------------------------------------ nested frames

\* The nestFrame calls whose unit of work has not completed.
running(us) == {u \in 1..Len(us) : us[u].pc = "running"}

\* The running calls whose unit of work is synchronous: they are on the
\* JavaScript call stack, the most recent one on top.
onCallStack(us) == {u \in running(us) : us[u].mode = "sync"}

\* nestFrame(context, fn) up to the call of fn: the frame is pushed and the
\* unit of work begins; `before` remembers the stack the call found.
NestFrame(mode) ==
  /\ Len(units) < MaxUnits
  /\ LET u == Len(units) + 1
     IN  /\ stack' = pushFrame(stack, u)
         /\ units' = Append(units, [frame |-> u, pc |-> "running", found |-> 0, out |-> Ok(Undef),
                                    mode |-> mode, before |-> stack, under |-> running(units),
                                    how |-> "none"])
  /\ ret' = NoReturn
  /\ UNCHANGED <<arena, resources, canonical, anchors, hasResolver, loadVars, refVars, passes,
                 nextId, shakes, strays>>

\* The rest of nestFrame once the unit of work completed in the way `how`.
nestFrameEnds(u, how) ==
  LET r == IF how \in {"return", "fulfil"}
           THEN unnestFrame(stack, units[u].frame, WorkResult)
           ELSE unwindFrame(stack, units[u].frame, WorkError)
  IN  /\ stack' = r[1]
      /\ units' = [units EXCEPT ![u].pc = "done", ![u].how = how, ![u].out = r[2],
                                ![u].found = topFrame(stack)]
      /\ ret' = Returned("nestFrame", u, r[2])
      /\ UNCHANGED <<arena, resources, canonical, anchors, hasResolver, loadVars, refVars,
                     passes, nextId, shakes, strays>>

\* A synchronous unit of work returns or throws: it is the call on top of the
\* call stack.
UnitReturns(u, how) ==
  /\ u \in onCallStack(units)
  /\ \A v \in onCallStack(units) : v <= u
  /\ nestFrameEnds(u, how)

\* The promise a unit of work returned is fulfilled or rejected: the reaction
\* runs as a microtask, with nothing on the call stack.
PromiseSettles(u, how) ==
  /\ u \in running(units)
  /\ units[u].mode = "async"
  /\ onCallStack(units) = {}
  /\ nestFrameEnds(u, how)

\* A unit of work calls pushFrame(context) without popping the frame.
PushFrame ==
  /\ running(units) # {}
  /\ strays < MaxStrays
  /\ strays' = strays + 1
  /\ stack' = pushFrame(stack, -(strays + 1))
  /\ ret' = NoReturn
  /\ UNCHANGED <<arena, resources, canonical, anchors, hasResolver, loadVars, refVars, passes,
                 nextId, shakes, units>>

\* A unit of work calls popFrame(context) without having pushed the frame.
PopFrame ==
  /\ running(units) # {}
  /\ strays < MaxStrays
  /\ strays' = strays + 1
  /\ stack' = popFrame(stack)
  /\ ret' = NoReturn
  /\ UNCHANGED <<arena, resources, canonical, anchors, hasResolver, loadVars, refVars, passes,
                 nextId, shakes, units>>

\* A unit of work sets the base URI of the frame on top of the stack
\* (`frame.baseUri = uri`).
SetBaseUri(uri) ==
  /\ running(units) # {}
  /\ stack # <<>>
  /\ stack[Len(stack)].baseUri # uri
  /\ stack' = [stack EXCEPT ![Len(stack)].baseUri = uri]
  /\ ret' = NoReturn
  /\ UNCHANGED <<arena, resources, canonical, anchors, hasResolver, loadVars, refVars, passes,
                 nextId, shakes, units, strays>>

\* A unit of work sets the key and the node of the frame it was given
\* (`frame.nodeKey = key; frame.node = node`), once.
SetFrameNode(key, node) ==
  /\ running(units) # {}
  /\ stack # <<>>
  /\ stack[Len(stack)].nodeKey = UndefStr
  /\ stack[Len(stack)].node = Undef
  /\ stack' = [stack EXCEPT ![Len(stack)].nodeKey = key, ![Len(stack)].node = node]
  /\ ret' = NoReturn
  /\ UNCHANGED <<arena, resources, canonical, anchors, hasResolver, loadVars, refVars, passes,
                 nextId, shakes, units, strays>>

\* currentBaseUri(frame) for the i-th frame of the stack from the root; 0
\* is `undefined`.
CurrentBaseUri(i) ==
  /\ ret' = Returned("currentBaseUri", i, currentBaseUri(SubSeq(stack, 1, i)))
  /\ UNCHANGED <<arena, resVars, loadVars, refVars, passes, nextId, shakes>>

\* currentLocation(context, frame) for the i-th frame of the stack from the
\* root; 0 is `undefined`.
CurrentLocation(i) ==
  /\ ret' = Returned("currentLocation", i, currentLocation(resources, SubSeq(stack, 1, i)))
  /\ UNCHANGED <<arena, resVars, loadVars, refVars, passes, nextId, shakes>>

\* ------------------------------------------------------- traverseReference

\* traverseReference(context, node) is called: `ret` holds the call, its
\* variable `node` (value) and whether the loop is running or has returned.
TraverseReference(node) ==
  /\ ret' = [node |-> node, value |-> node, pc |-> "loop", op |-> "traverseReference"]
  /\ passes' = delivered(passes)
  /\ UNCHANGED <<arena, resVars, loadVars, refVars, nextId, shakes>>

\* The call has not returned.
traversing == ret.op = "traverseReference" /\ ret.pc = "loop"

\* One iteration of the loop of traverseReference: it breaks when the node
\* has no Reference or its Reference has no target, and moves on to the
\* target otherwise.
TraverseStep ==
  /\ traversing
  /\ LET reference == getReference(references, ret.value)
     IN  IF reference = NoReference \/ heap[reference].target = Undef
         THEN ret' = [ret EXCEPT !.pc = "returned"]
         ELSE ret' = [ret EXCEPT !.value = heap[reference].target]
  /\ UNCHANGED <<arena, resVars, loadVars, refVars, passes, nextId, shakes>>

\* ------------------------------------------------------------ specification

\* createContext() followed by setResource(context, B) and
\* setResourceAnchor(B, "n", node 9); the external resolver is configured or
\* not.
Init ==
  /\ LET m == setResourceMaps(EmptyMap, EmptyMap, 2)
     IN  /\ resources = m[1]
         /\ canonical = m[2]
  /\ arena = NodeTable
  /\ anchors = (2 :> (<<"n">> :> Obj(9)))
  /\ hasResolver \in BOOLEAN
  /\ stack = <<>>
  /\ heap = <<>>
  /\ references = EmptyMap
  /\ unresolved = <<>>
  /\ passes = [p \in PassIds |-> IdlePass]
  /\ nextId = 0
  /\ shakes = 0
  /\ units = <<>>
  /\ strays = 0
  /\ loads = [c \in LoadIds |-> IdleLoad]
  /\ invoked = EmptyMap
  /\ supplied = {}
  /\ ret = NoReturn

\* Registration with any of the URIs, detection, and resolution against the
\* base document or no base, with or without the external resolver.
Next ==
  \/ \E node \in RegNodes, uri \in RegUris : RegisterReference(node, RefKey, uri)
  \/ \E node \in {3} : DetectReference(Obj(node), RefKey)
  \/ \E node \in {5} : DetectReferences(node, <<RefKey>>)
  \/ \E p \in PassIds, resource \in {NoResource, 1} : ResolveReferences(p, resource)
  \/ \E p \in PassIds, outcome \in {"resource", "undefined", "throwError", "throwResolution"} :
       ResolverSettles(p, outcome)
  \/ \E p \in PassIds : PassResumes(p)

Spec == Init /\ [][Next]_vars

\* The registrations made before tree-shaking: each reference node with the
\* URI it holds, and node 3 redirected at node 4, itself a reference node.
ShakeRegs ==
  { <<3, <<"#", "/", "t">>>>,            \* node 2
    <<4, <<"#", "/", "t">>>>,            \* node 2 again
    <<7, <<"#", "/", "a", "/", "t">>>>,  \* node 6, which holds node 7
    <<3, <<"#", "/", "y">>>> }           \* node 4

InitShake == Init /\ hasResolver = FALSE

\* Registration and detection in the base document, resolution against it,
\* and tree-shaking.
NextShake ==
  \/ \E reg \in ShakeRegs : RegisterReference(reg[1], RefKey, reg[2])
  \/ \E node \in {5} : DetectReferences(node, <<RefKey>>)
  \/ \E p \in PassIds : ResolveReferences(p, 1)
  \/ \E p \in PassIds : PassResumes(p)
  \/ \E roots \in RootChoices : TreeShakeReferences(roots, DefsUri)

SpecShake == InitShake /\ [][NextShake]_vars

\* Registration, resolution against the base document, and tree-shaking
\* with a transform.
NextTransform ==
  \/ \E reg \in ShakeRegs : RegisterReference(reg[1], RefKey, reg[2])
  \/ \E p \in PassIds : ResolveReferences(p, 1)
  \/ \E p \in PassIds : PassResumes(p)
  \/ \E roots \in RootChoices : TreeShakeTransform(roots, DefsUri, "tag")

SpecTransform == InitShake /\ [][NextTransform]_vars

\* Nested frames: synchronous and asynchronous units of work that return,
\* throw, fulfil or reject, nested or overlapping, balanced or not.
NextFrames ==
  \/ \E mode \in {"sync", "async"} : NestFrame(mode)
  \/ \E u \in 1..MaxUnits, how \in {"return", "throw"} : UnitReturns(u, how)
  \/ \E u \in 1..MaxUnits, how \in {"fulfil", "reject"} : PromiseSettles(u, how)
  \/ PushFrame
  \/ PopFrame

SpecFrames == InitShake /\ [][NextFrames]_vars

\* Direct resolveResource calls, two at a time at most, beside a pass over
\* references to document V.
NextLoad ==
  \/ \E c \in LoadIds, u \in LoadUris : ResolveResource(c, u)
  \/ \E c \in LoadIds, resource \in ResourceIds \cup {NoResource} : ResolverReturns(c, resource)
  \/ \E c \in LoadIds : ResolverThrows(c)
  \/ \E node \in {3} : RegisterReference(node, RefKey, <<"v">>)
  \/ \E p \in PassIds : ResolveReferences(p, NoResource)
  \/ \E p \in PassIds, outcome \in {"resource", "undefined", "throwError", "throwResolution"} :
       ResolverSettles(p, outcome)
  \/ \E p \in PassIds : PassResumes(p)

SpecLoad == Init /\ [][NextLoad]_vars

\* The resource registry: registration of resources and anchors, and the
\* lookups by canonical URI, by fragment and by URI reference.
NextResource ==
  \/ \E resource \in ResourceIds : SetResource(resource)
  \/ \E c \in {1}, u \in {<<"u">>, <<"u", "#">>, <<"v">>} : ResolveResource(c, u)
  \/ \E c \in {1}, resource \in ResourceIds \cup {NoResource} : ResolverReturns(c, resource)
  \/ \E c \in {1} : ResolverThrows(c)

SpecResource == Init /\ [][NextResource]_vars

\* Anchors, fragments and URI references: anchors are set on the two Resource
\* objects of document B, and fragments and URI references are resolved
\* against the documents, with or without a base resource.
NextUri ==
  \/ \E a \in { <<2, <<"a">>, Obj(9)>>, <<2, <<"a">>, Obj(2)>>,
               <<2, <<"a", "#", "b">>, Obj(3)>>, <<5, <<"a">>, Obj(2)>> } :
       SetResourceAnchor(a[1], a[2], a[3])
  \/ \E resource \in {2},
        fragment \in { <<>>, <<"/", "t">>, <<"/", "t", "/", "1", "/", "k">>, <<"/", "z">>,
                       <<"/", "t", "/", "0", "/", "k">>, <<"n">>, <<"a">>,
                       <<"a", "#", "b">>, <<"m">> } :
       ResolveResourceFragment(resource, fragment)
  \/ \E resource \in {5}, fragment \in { <<"n">>, <<"a">> } :
       ResolveResourceFragment(resource, fragment)
  \/ \E c \in {1}, resource \in {NoResource, 1},
        uri \in { <<>>, <<"#">>, <<"#", "/", "t">>, <<"#", "n">>, <<"u">>, <<"u", "#">>,
                  <<"u", "#", "/", "t">>, <<"u", "#", "a">>, <<"u", "#", "a", "#", "b">>,
                  <<"v">>, <<"x", "#", "/", "t">> } :
       ResolveResourceUri(c, resource, uri)
  \/ \E c \in {1}, resource \in ResourceIds \cup {NoResource} : ResolverReturns(c, resource)
  \/ \E c \in {1} : ResolverThrows(c)

SpecUri == Init /\ [][NextUri]_vars

\* Detection inside nested frames: units of work enter frames and set their
\* base URIs (one of them not a valid URI), and detect references in single
\* values and in whole subtrees, under one keyword or two.
NextDetect ==
  \/ NestFrame("sync")
  \/ \E uri \in {<<"w", "#", "x">>, <<"b", " ", "d">>} : SetBaseUri(uri)
  \/ \E node \in {Obj(2), Obj(3), Obj(11), Obj(12), Str(<<"s">>)} :
       DetectReference(node, RefKey)
  \/ \E call \in {<<5, <<RefKey>>>>, <<13, <<RefKey>>>>, <<9, <<RefKey, <<"k">>>>>>} :
       DetectReferences(call[1], call[2])
  \/ \E u \in 1..MaxUnits : UnitReturns(u, "return")

SpecDetect == InitShake /\ [][NextDetect]_vars

\* Walks with two keywords, in either order, over nodes that have strings
\* under one of them or under both, repeated under another base URI.
NextKeywords ==
  \/ NestFrame("sync")
  \/ SetBaseUri(<<"w", "#", "x">>)
  \/ \E call \in {<<14, <<RefKey, <<"k">>>>>>, <<14, <<<<"k">>, RefKey>>>>,
                   <<9, <<<<"k">>, RefKey>>>>, <<13, <<RefKey, <<"k">>>>>>} :
       DetectReferences(call[1], call[2])
  \/ \E u \in 1..MaxUnits : UnitReturns(u, "return")

SpecKeywords == InitShake /\ [][NextKeywords]_vars

\* createContext({resolveResource, resources, canonical}): the context after
\* construction, for each form of the resources option, followed by
\* initContext on that context and by lookups by canonical URI.
InitCreate ==
  \E form \in ResourceForms, list \in ResourceLists, shared \in BOOLEAN :
    /\ resources = initContextMaps(TRUE, EmptyMap, EmptyMap, form, list, shared,
                                   indexResources(EmptyMap, EmptyMap, list, 1)[2])[1]
    /\ canonical = initContextMaps(TRUE, EmptyMap, EmptyMap, form, list, shared,
                                   indexResources(EmptyMap, EmptyMap, list, 1)[2])[2]
    /\ arena = NodeTable
    /\ anchors = (2 :> (<<"n">> :> Obj(9)))
    /\ hasResolver \in BOOLEAN
    /\ stack = <<>>
    /\ heap = <<>>
    /\ references = EmptyMap
    /\ unresolved = <<>>
    /\ passes = [p \in PassIds |-> IdlePass]
    /\ nextId = 0
    /\ shakes = 0
    /\ units = <<>>
    /\ strays = 0
    /\ loads = [c \in LoadIds |-> IdleLoad]
    /\ invoked = EmptyMap
    /\ supplied = {}
    /\ ret = Returned("createContext", <<form, list, shared>>, Ok(Undef))

NextCreate ==
  \/ \E form \in ResourceForms, list \in ResourceLists, shared \in BOOLEAN :
       InitContext(form, list, shared)
  \/ \E c \in {1}, u \in {<<"u">>, <<"u", "#">>, <<"v">>} : ResolveResource(c, u)
  \/ \E c \in {1}, resource \in {3, NoResource} : ResolverReturns(c, resource)

SpecCreate == InitCreate /\ [][NextCreate]_vars

\* Two resolveReferences calls on one context, the external resolver
\* configured: the context of Init with room for a second call.
InitOverlap ==
  /\ LET m == setResourceMaps(EmptyMap, EmptyMap, 2)
     IN  /\ resources = m[1]
         /\ canonical = m[2]
  /\ arena = NodeTable
  /\ anchors = (2 :> (<<"n">> :> Obj(9)))
  /\ hasResolver = TRUE
  /\ stack = <<>>
  /\ heap = <<>>
  /\ references = EmptyMap
  /\ unresolved = <<>>
  /\ passes = [p \in {1, 2} |-> IdlePass]
  /\ nextId = 0
  /\ shakes = 0
  /\ units = <<>>
  /\ strays = 0
  /\ loads = [c \in LoadIds |-> IdleLoad]
  /\ invoked = EmptyMap
  /\ supplied = {}
  /\ ret = NoReturn

\* Overlapping passes: a call may begin while the other is suspended, and
\* references to document V (loaded by the resolver), to a document the
\* resolver cannot supply and to a missing node of the base document are
\* registered at any time.
NextOverlap ==
  \/ \E node \in RegNodes, uri \in {<<"v">>, <<"w">>, <<"#", "/", "z">>} :
       RegisterReference(node, RefKey, uri)
  \/ \E p \in {1, 2} : ResolveReferences(p, 1)
  \/ \E p \in {1, 2}, outcome \in {"resource", "undefined", "throwError"} :
       ResolverSettles(p, outcome)
  \/ \E p \in {1, 2} : PassResumes(p)

SpecOverlap == InitOverlap /\ [][NextOverlap]_vars

\* Traversal of resolved references: node 3 refers to node 4, and node 4 to
\* node 2 or back to node 3. traverseReference is synchronous: nothing else
\* runs until it returns, and its loop keeps running.
NextTraverse ==
  \/ \E reg \in {<<3, <<"#", "/", "y">>>>, <<4, <<"#", "/", "t">>>>,
                 <<4, <<"#", "/", "x">>>>, <<4, <<"#", "/", "z">>>>} :
       ~traversing /\ RegisterReference(reg[1], RefKey, reg[2])
  \/ ~traversing /\ ResolveReferences(1, 1)
  \/ ~traversing /\ PassResumes(1)
  \/ \E node \in {Obj(2), Obj(3), Obj(4), Str(<<"s">>)} :
       ~traversing /\ TraverseReference(node)
  \/ TraverseStep

SpecTraverse == InitShake /\ [][NextTraverse]_vars /\ WF_vars(TraverseStep)

\* Frames and what is read from them: units of work enter frames, set their
\* base URI, key and node (document B's root, nodes inside it, a key that
\* needs escaping), document A and a second Resource for document B are
\* registered, and the base URI and the location of any frame are asked for.
NextContext ==
  \/ NestFrame("sync")
  \/ \E uri \in {<<"u">>, <<"w", "#", "x">>} : SetBaseUri(uri)
  \/ \E at \in {<<<<"t">>, Obj(9)>>, <<<<"~", "/">>, Obj(2)>>, <<<<"k">>, Obj(8)>>,
                <<UndefStr, Obj(1)>>} :
       SetFrameNode(at[1], at[2])
  \/ \E resource \in {1, 5} : SetResource(resource)
  \/ \E i \in 0..MaxUnits : i <= Len(stack) /\ CurrentBaseUri(i)
  \/ \E i \in 0..MaxUnits : i <= Len(stack) /\ CurrentLocation(i)
  \/ \E u \in 1..MaxUnits : UnitReturns(u, "return")

SpecContext == InitShake /\ [][NextContext]_vars

\* ------------------------------------------------- registration and passes

\* The References held by the entries of an unresolved map.
unresolvedIds(unres) == {unres[i][2] : i \in 1..Len(unres)}

\* A ResolutionError pass end or a normal return: the drain ran to its end.
drained(pass) ==
  /\ pass.pc = "done"
  /\ pass.out = "returned" \/ pass.err.cls = "ResolutionError"

\* resolveReferences rethrew an error that is not a ResolutionError.
aborted(pass) ==
  /\ pass.pc = "done"
  /\ pass.out = "threw"
  /\ pass.err.cls # "ResolutionError"

\* C1: registerReference is idempotent per node. A call for a node that
\* already has a Reference returns that same Reference, leaves its key, uri
\* and target as they were, whatever key and uri were passed, and leaves the
\* unresolved map and the permanent map unchanged.
C1_RegisterIdempotent ==
  [][\A n \in NodeIds :
       LET old == getReference(references, Obj(n))
       IN  (/\ ret'.op = "registerReference"
            /\ ret'.node = Obj(n)
            /\ old # NoReference)
           => /\ ret'.value = Ok(old)
              /\ heap'[old] = heap[old]
              /\ unresolved' = unresolved
              /\ references' = references]_vars

\* A repeated registration of a node whose Reference has been resolved, and
\* of one whose resolution failed.
C1_Witness ==
  /\ ret.op = "registerReference"
  /\ ret.value.v \in DOMAIN heap
  /\ heap[ret.value.v].target # Undef
  /\ \E id \in DOMAIN heap : heap[id].target = Undef /\ id \notin unresolvedIds(unresolved)

\* C2: resolveReferences removes each entry from the unresolved map before
\* it attempts it: while an attempt is in progress its entry is not in the
\* map. When a pass ends by returning or by throwing a ResolutionError, the
\* unresolved map is empty.
C2_DrainBeforeAttempt ==
  \A p \in PassIds :
    /\ passes[p].pc \in {"awaitResolver", "awaitUri"}
         => passes[p].cur \notin unresolvedIds(unresolved)
    /\ drained(passes[p]) => unresolved = <<>>

\* A pass over two entries that ended by throwing a ResolutionError.
C2_Witness ==
  \E p \in PassIds :
    /\ drained(passes[p])
    /\ passes[p].out = "threw"
    /\ Cardinality(passes[p].taken) = 2

\* resolveResourceUri(context, base, uri) run on its own in the current state.
independentTarget(base, uri) ==
  resolveResourceUriCached(resources, canonical, anchors, stack, base, uri)

\* C3 as stated: after a pass returns without error, the unresolved map is
\* empty and the target of every registered Reference is what
\* resolveResourceUri gives for its uri and the base of the pass.
C3_EveryRegistered ==
  \A p \in PassIds :
    (passes[p].pc = "done" /\ passes[p].out = "returned")
      => /\ unresolved = <<>>
         /\ \A id \in DOMAIN heap :
              independentTarget(passes[p].base, heap[id].uri) = Ok(heap[id].target)

\* C3: after a pass returns without error, the unresolved map is empty and
\* the target of every Reference the pass removed from the unresolved map is
\* what resolveResourceUri gives for its uri and the base of the pass.
C3_FullDrain ==
  \A p \in PassIds :
    (passes[p].pc = "done" /\ passes[p].out = "returned")
      => /\ unresolved = <<>>
         /\ \A id \in passes[p].taken :
              independentTarget(passes[p].base, heap[id].uri) = Ok(heap[id].target)

\* A pass that resolved two references and returned, one of them into a
\* document the external resolver supplied.
C3_Witness ==
  \E p \in PassIds :
    /\ passes[p].pc = "done"
    /\ passes[p].out = "returned"
    /\ Cardinality(passes[p].taken) = 2
    /\ \E id \in passes[p].taken : heap[id].target = Obj(10)

\* C4: every node in the unresolved map is in the permanent map, mapped to
\* the same Reference, whose target is unset.
C4_UnresolvedSubset ==
  \A i \in 1..Len(unresolved) :
    /\ unresolved[i][1] \in DOMAIN references
    /\ references[unresolved[i][1]] = unresolved[i][2]
    /\ heap[unresolved[i][2]].target = Undef

\* An unresolved entry next to a resolved Reference.
C4_Witness ==
  /\ Len(unresolved) = 1
  /\ \E id \in DOMAIN heap : heap[id].target # Undef

\* The pieces "\n  " and message of one captured error, in a message.
enumerates(msg, error) ==
  \E j \in 1..Len(msg) :
    /\ j + Len(error.msg) <= Len(msg)
    /\ msg[j] = "\n  "
    /\ SubSeq(msg, j + 1, j + Len(error.msg)) = error.msg

\* C6: every ResolutionError raised for an entry is captured and the drain
\* goes on to the end of the map; then no captured error is a normal return,
\* one captured error is thrown as it is, and two or more are thrown as one
\* new ResolutionError whose cause is the list of them and whose message
\* enumerates each.
C6_OutcomeByCaptured ==
  \A p \in PassIds :
    LET pass == passes[p]
        n == Len(pass.cause)
    IN  /\ \A i \in 1..n : pass.cause[i].cls = "ResolutionError"
        /\ (pass.pc = "done" /\ ~aborted(pass))
             => /\ n = Cardinality({id \in pass.taken : heap[id].target = Undef})
                /\ unresolved = <<>>
                /\ n = 0 => pass.out = "returned"
                /\ n = 1 => pass.out = "threw" /\ pass.err = pass.cause[1]
                /\ n >= 2 => /\ pass.out = "threw"
                             /\ pass.err.cls = "ResolutionError"
                             /\ pass.err.cause = pass.cause
                             /\ pass.err # pass.cause[1]
                             /\ \A i \in 1..n : enumerates(pass.err.msg, pass.cause[i])

\* A pass that threw the aggregate of two errors, one of them a
\* ResolutionError of the external resolver.
C6_Witness ==
  \E p \in PassIds :
    /\ passes[p].pc = "done"
    /\ Len(passes[p].cause) = 2
    /\ \E i \in 1..2 : passes[p].cause[i].msg = <<"Resolver failed">>
    /\ passes[p].err.cause = passes[p].cause

baseName(uri) ==
  Slice(uri, Max(LastIndexOf(uri, "/"), LastIndexOf(uri, "#")) + 1, Len(uri))

\* The last step was a treeShakeReferences call.
shaken == ret.op = "treeShakeReferences"

\* C5: the lifecycle never goes backward. In every step of registration,
\* detection, resolution and tree-shaking a node of the permanent map stays
\* in it, and a target that is set stays what it is, for the Reference
\* object and for the node that maps to it.
C5_NeverBackward ==
  [][/\ \A node \in DOMAIN references :
          /\ node \in DOMAIN references'
          /\ heap[references[node]].target # Undef
               => heap'[references'[node]].target = heap[references[node]].target
     /\ \A id \in DOMAIN heap :
          heap[id].target # Undef
            => id \in DOMAIN heap' /\ heap'[id].target = heap[id].target]_vars

\* A pass that set a target ended after a tree-shaking that registered a
\* rewritten reference with its target.
C5_Witness ==
  /\ shakes = 1
  /\ \E node \in DOMAIN references :
       node.t = "newobj" /\ heap[references[node]].target # Undef
  /\ \E p \in PassIds :
       /\ passes[p].pc = "done"
       /\ \E id \in passes[p].taken : heap[id].target # Undef

\* C8 as stated: distinct relocated targets have distinct names, each the
\* base name of a URI that resolves to the target or that name with a
\* counter appended; defs holds one entry per relocated target; and the
\* definition a relocated reference is pointed at is the rewrite of its own
\* target.
C8_DistinctNames ==
  shaken =>
    LET r == ret.value
    IN  /\ \A t1, t2 \in DOMAIN r.marked : t1 # t2 => r.marked[t1] # r.marked[t2]
        /\ \A t \in DOMAIN r.marked :
             \E id \in DOMAIN heap :
               /\ heap[id].target = t
               /\ \/ r.marked[t] = baseName(heap[id].uri)
                  \/ \E k \in 1..Len(Digits) :
                       r.marked[t] = baseName(heap[id].uri) \o <<Digits[k]>>
        /\ Cardinality(DOMAIN r.st.defs) = Cardinality(DOMAIN r.marked)
        /\ \A i \in 1..Len(r.st.registered) :
             r.st.origin[r.marked[r.st.registered[i][3]]] = r.st.registered[i][3]

\* Two targets were given the same name.
C8_Witness ==
  /\ shaken
  /\ \E t1, t2 \in DOMAIN ret.value.marked :
       t1 # t2 /\ ret.value.marked[t1] = ret.value.marked[t2]

\* C9: the reference nodes that share a relocated target are replaced by
\* nodes that carry one address, defsUri + "/" + escapePointer(name), and
\* defs holds that one name for them.
C9_SharedTarget ==
  shaken =>
    LET r == ret.value
        reg == r.st.registered
    IN  /\ \A i \in 1..Len(reg) :
             LET name == r.marked[reg[i][3]]
             IN  /\ reg[i][1].c =
                      << <<reg[i][2].key, Str(DefsUri \o <<"/">> \o escapePointer(name))>> >>
                 /\ reg[i][2].uri = DefsUri \o <<"/">> \o escapePointer(name)
                 /\ name \in DOMAIN r.st.defs
        /\ \A i, j \in 1..Len(reg) :
             reg[i][3] = reg[j][3] => reg[i][1].c = reg[j][1].c
        /\ Cardinality(DOMAIN r.st.defs) <= Cardinality(DOMAIN r.marked)
        /\ Len(r.st.names) = Cardinality(DOMAIN r.st.defs)

\* Two roots, each a reference to node 2, were rewritten to two nodes.
C9_Witness ==
  /\ shaken
  /\ ret.node = <<Obj(3), Obj(4)>>
  /\ LET reg == ret.value.st.registered
     IN  /\ Len(reg) = 2
         /\ reg[1][3] = Obj(2) /\ reg[2][3] = Obj(2)
         /\ reg[1][1] # reg[2][1]

\* The person graph: the one relocated target is node 6, whose f holds a
\* reference to node 6.
personGraph ==
  /\ shaken
  /\ ret.node = <<Obj(1)>>
  /\ DOMAIN ret.value.marked = {Obj(6)}

\* C10: treeShakeReferences terminates; the mark phase runs its body at most
\* once per object, and a definition is rewritten at most once; the person
\* graph gives one definition, whose f is the pointer relocated to that same
\* definition.
C10_CycleSafe ==
  shaken =>
    LET st == ret.value.st
    IN  /\ ~st.diverged
        /\ \A node \in DOMAIN st.visits : st.visits[node] <= 1
        /\ \A name \in DOMAIN st.computes : st.computes[name] <= 1
        /\ \A name \in DOMAIN st.defs : name \in DOMAIN st.computes
        /\ personGraph =>
             /\ DOMAIN st.defs = {<<"t">>}
             /\ st.defs[<<"t">>].t = "newobj"
             /\ Len(st.defs[<<"t">>].c) = 1
             /\ st.defs[<<"t">>].c[1][1] = <<"f">>
             /\ st.defs[<<"t">>].c[1][2].t = "newobj"
             /\ st.defs[<<"t">>].c[1][2].c =
                  << <<RefKey, Str(DefsUri \o <<"/", "t">>)>> >>

C10_Witness == personGraph /\ ~ret.value.st.diverged

\* The nodes built by the rewriter that a value holds, itself included.
RECURSIVE built(_)
built(v) ==
  IF v.t \in {"newobj", "newarr"}
  THEN {v} \cup UNION {built(v.c[i][2]) : i \in 1..Len(v.c)}
  ELSE {}

\* The nodes built that a tree-shaking result holds, in its roots and in its
\* definitions.
emitted(r) ==
  UNION {built(r.roots[i]) : i \in 1..Len(r.roots)}
    \cup UNION {built(r.st.defs[name]) : name \in DOMAIN r.st.defs}

\* The objects reached from a set of objects through children and through
\* the targets of resolved references.
RECURSIVE reachable(_)
reachable(S) ==
  LET step == S \cup {v \in UNION {{Entries(n)[i][2] : i \in 1..Len(Entries(n))} : n \in S} :
                        v.t = "obj"}
                 \cup ({refOf(heap, references, n).target : n \in S} \ {Undef})
  IN  IF step = S THEN S ELSE reachable(step)

\* The keys of an object, in order.
keysOf(v) == [i \in 1..Len(Entries(v)) |-> Entries(v)[i][1]]

\* C11: the result of treeShakeReferences is self-contained. The nodes it
\* registered are the pointer nodes it emitted; each has the one entry
\* keyword: defsUri + "/" + escapePointer(name) with name a key of defs that
\* holds a definition; every key of defs is the name of an emitted pointer;
\* the roots come back in input order; and defs is undefined exactly when no
\* object reachable from the roots is a resolved reference to a non-root.
C11_SelfContained ==
  shaken =>
    LET r == ret.value
        reg == r.st.registered
        pointers == {reg[i][1] : i \in 1..Len(reg)}
        roots == ret.node
    IN  /\ pointers \subseteq emitted(r)
        /\ \A i \in 1..Len(reg) :
             \E name \in DOMAIN r.st.defs :
               /\ reg[i][1].t = "newobj"
               /\ reg[i][1].c =
                    << <<reg[i][2].key, Str(DefsUri \o <<"/">> \o escapePointer(name))>> >>
               /\ r.st.defs[name] # Undef
               /\ r.st.defs[name].t \in {"newobj", "newarr"}
        /\ \A name \in DOMAIN r.st.defs :
             \E v \in emitted(r) :
               /\ v \in pointers
               /\ v.c[1][2] = Str(DefsUri \o <<"/">> \o escapePointer(name))
        /\ Len(r.roots) = Len(roots)
        /\ \A i \in 1..Len(roots) :
             IF r.roots[i] \in pointers
             THEN refOf(heap, references, roots[i]).target \in DOMAIN r.marked
             ELSE keysOf(r.roots[i]) = keysOf(roots[i])
        /\ r.st.defsDefined <=> DOMAIN r.st.defs # {}
        /\ DOMAIN r.st.defs = {}
             <=> ~\E n \in reachable({roots[i] : i \in 1..Len(roots)}) :
                    LET target == refOf(heap, references, n).target
                    IN  target # Undef /\ ~includes(roots, target)

\* Roots of different shapes came back in order, the second as a pointer
\* into a definition.
C11_Witness ==
  /\ shaken
  /\ ret.node = <<Obj(6), Obj(3)>>
  /\ DOMAIN ret.value.st.defs # {}
  /\ ret.value.roots[1].c[1][1] = <<"f">>
  /\ ret.value.roots[2].c[1][1] = RefKey

\* C12: the engine mutates no node. No step changes the content of an
\* object or array of the documents; a step of resolveReferences changes no
\* key or uri of a Reference and no entry of the permanent map; a
\* treeShakeReferences step changes no Reference that was registered before
\* it, no entry of the permanent map that was there, and not the unresolved
\* map.
C12_NoMutation ==
  [][/\ arena' = arena
     /\ passes' # delivered(passes)
          => /\ references' = references
             /\ DOMAIN heap' = DOMAIN heap
             /\ \A id \in DOMAIN heap :
                  heap'[id].key = heap[id].key /\ heap'[id].uri = heap[id].uri
     /\ ret'.op = "treeShakeReferences"
          => /\ unresolved' = unresolved
             /\ \A id \in DOMAIN heap : heap'[id] = heap[id]
             /\ \A node \in DOMAIN references : references'[node] = references[node]]_vars

\* A tree-shaking that relocated a target while a reference was unresolved.
C12_Witness ==
  /\ shaken
  /\ unresolved # <<>>
  /\ DOMAIN ret.value.st.defs # {}
  /\ arena = NodeTable

\* The structure of a value: what it holds, the identities of the nodes
\* built left out.
RECURSIVE shape(_)
shape(v) ==
  IF v.t \in {"newobj", "newarr"}
  THEN [c |-> [i \in 1..Len(v.c) |-> <<v.c[i][1], shape(v.c[i][2])>>], t |-> v.t]
  ELSE [c |-> v, t |-> v.t]

pointersOf(r) == {r.st.registered[i][1] : i \in 1..Len(r.st.registered)}

\* `out` is `in` rewritten in place: a reference to a relocated target is a
\* pointer node, any other object is a built node with the same keys whose
\* children are again rewritten in place, and any other value is itself.
RECURSIVE inline(_, _, _)
inline(r, in, out) ==
  IF ~isObject(in) THEN out = in
  ELSE IF refOf(heap, references, in).target \in DOMAIN r.marked
  THEN out \in pointersOf(r)
  ELSE /\ out.t = (IF isArray(in) THEN "newarr" ELSE "newobj")
       /\ out \notin pointersOf(r)
       /\ keysOf(out) = keysOf(in)
       /\ \A j \in 1..Len(Entries(in)) : inline(r, Entries(in)[j][2], out.c[j][2])

\* C14: roots are never relocated. No root is given a name, also when a
\* resolved reference has it as target; no definition is the rewrite of a
\* root; and what a root holds stays in the rewritten root, in place, also
\* when it is relocated as the target of a reference.
C14_RootsInline ==
  shaken =>
    LET r == ret.value
        roots == ret.node
    IN  /\ \A i \in 1..Len(roots) : roots[i] \notin DOMAIN r.marked
        /\ \A name \in DOMAIN r.st.origin : ~includes(roots, r.st.origin[name])
        /\ \A i \in 1..Len(roots) : inline(r, roots[i], r.roots[i])

\* Node 6 is a root and the target of the reference it holds, next to a
\* root that is a reference to a relocated target.
C14_Witness ==
  /\ shaken
  /\ ret.node = <<Obj(6), Obj(3)>>
  /\ refOf(heap, references, Obj(7)).target = Obj(6)
  /\ DOMAIN ret.value.st.defs # {}
  /\ ret.value.roots[1].c[1][2].c = Entries(Obj(7))

\* The last step was a treeShakeReferences call with a transform.
transformedShake == ret.op = "treeShakeTransform"

\* The nodes the transform returned in its first k calls.
returnedBy(calls, k) == {calls[j][2] : j \in 1..k}

frameIds(stk) == {stk[i].id : i \in 1..Len(stk)}

\* The nestFrame call u ends in this step.
ends(u) == u \in running(units) /\ units'[u].pc = "done"

\* What nestFrame passes through when the unit of work completed in the way
\* `how`.
passedThrough(how) ==
  IF how \in {"return", "fulfil"} THEN Ok(WorkResult) ELSE Throw(WorkError)

\* C16: nestFrame pushes exactly one new frame, whose parent is the frame
\* that was on top, before the unit of work runs; and when the unit of work
\* completes with that frame on top -- by returning, by throwing, or by the
\* settlement of the promise it returned -- the frame is popped, the stack is
\* again the one the call found, and the result or the failure of the unit of
\* work is what the call gives its caller.
C16_NestFrameBalanced ==
  [][ /\ Len(units') > Len(units) =>
           LET u == Len(units')
           IN  /\ Len(stack') = Len(stack) + 1
               /\ SubSeq(stack', 1, Len(stack)) = stack
               /\ topFrame(stack') = units'[u].frame
               /\ units'[u].frame \notin frameIds(stack)
      /\ \A u \in 1..Len(units) :
           ends(u) /\ topFrame(stack) = units[u].frame =>
             /\ stack' = units[u].before
             /\ units'[u].out = passedThrough(units'[u].how)
             /\ ret' = Returned("nestFrame", u, units'[u].out) ]_vars

\* A nested asynchronous unit of work was rejected with its frame on top: the
\* frame is gone, the outer frame is on top again, and the rejection reached
\* the caller.
C16_Witness ==
  /\ Len(units) = 2
  /\ units[1].pc = "running"
  /\ units[2].mode = "async" /\ units[2].how = "reject"
  /\ units[2].found = units[2].frame
  /\ topFrame(stack) = units[1].frame
  /\ ret = Returned("nestFrame", 2, Throw(WorkError))

\* C17: when the unit of work of nestFrame returns, or the promise it returned
\* is fulfilled, while the top of the stack is not the frame the call pushed,
\* the call fails with 'Stack frame was replaced during execution' in place
\* of the result, and the stack is left as it was.
C17_ReplacedFrameFails ==
  [][ \A u \in 1..Len(units) :
        /\ ends(u)
        /\ units'[u].how \in {"return", "fulfil"}
        /\ topFrame(stack) # units[u].frame
        => /\ units'[u].out = Throw(StackReplaced)
           /\ ret' = Returned("nestFrame", u, Throw(StackReplaced))
           /\ stack' = stack ]_vars

\* A nested synchronous unit of work popped its own frame and returned: the
\* call failed and popped nothing more, the outer frame is still on top.
C17_Witness ==
  /\ Len(units) = 2
  /\ units[2].mode = "sync" /\ units[2].how = "return"
  /\ units[2].found = units[1].frame
  /\ units[2].out = Throw(StackReplaced)
  /\ topFrame(stack) = units[1].frame
  /\ ret.op = "nestFrame"

\* The calls a and b overlapped: a is asynchronous and had not settled when
\* b began.
overlapped(a, b) ==
  /\ a < b /\ b <= Len(units)
  /\ units[a].mode = "async"
  /\ a \in units[b].under

\* C18 as stated: of two calls, the second begun while the first, an
\* asynchronous one, had not settled, at least one fails with the
\* stack-corruption error once both have completed, in whatever order.
C18_AlwaysDetected ==
  \A a, b \in 1..Len(units) :
    overlapped(a, b) /\ units[a].pc = "done" /\ units[b].pc = "done"
    => \/ units[a].out = Throw(StackReplaced)
       \/ units[b].out = Throw(StackReplaced)

\* C18: while no unit of work pushes or pops frames on its own, a call fails
\* with the stack-corruption error exactly when its unit of work returned or
\* was fulfilled while the frame of a call begun later was on top.  So of two
\* overlapping calls the earlier one fails if it is fulfilled first; if the
\* later one completes first, or the earlier one is rejected, neither does.
C18_DetectedWhenFulfilledFirst ==
  strays = 0 =>
    /\ \A u \in 1..Len(units) :
         units[u].pc = "done" =>
           /\ units[u].found >= units[u].frame
           /\ units[u].out = Throw(StackReplaced)
                <=> /\ units[u].how \in {"return", "fulfil"}
                    /\ units[u].found > units[u].frame
    /\ \A a, b \in 1..Len(units) :
         /\ overlapped(a, b)
         /\ units[a].pc = "done" /\ units[b].pc = "done"
         /\ units[b].found = units[b].frame
         /\ units[a].found = units[a].frame
         => /\ units[a].out = passedThrough(units[a].how)
            /\ units[b].out = passedThrough(units[b].how)

\* Two overlapping calls, the earlier fulfilled first: it failed, the later
\* one returned its result, and the earlier call's frame stays on the stack.
C18_Witness ==
  /\ strays = 0
  /\ overlapped(1, 2)
  /\ units[1].how = "fulfil" /\ units[1].found = units[2].frame
  /\ units[1].out = Throw(StackReplaced)
  /\ units[2].out = Ok(WorkResult)
  /\ topFrame(stack) = units[1].frame

\* ---------------------------------------------------------- resolveResource

\* How often the external resolver was called with a canonical URI.
timesInvoked(inv, canonicalUri) == MapGet(inv, canonicalUri, 0)

\* A direct resolveResource call returns in this step without awaiting.
returnsAtOnce == ret'.op = "resolveResource" /\ loads' = loads

\* C19: resolveResource(context, u) returns the resource the canonical map
\* holds for u and does not call the external resolver; when the map holds
\* none and a resolver is configured, it calls the resolver once, with u, and
\* a resource the resolver returns is in context.resources under its node and
\* in context.canonical under its URI, if it has one, when the call returns
\* it.
C19_ResolveResource ==
  [][ /\ returnsAtOnce =>
           LET held == canonicalGet(canonical, ret'.node)
           IN  /\ ret'.value = Loaded(held)
               /\ held = NoResource => ~hasResolver
               /\ invoked' = invoked
               /\ canonical' = canonical /\ resources' = resources
      /\ \A u \in DOMAIN canonical : timesInvoked(invoked', u) = timesInvoked(invoked, u)
      /\ \A c \in LoadIds :
           loads[c].pc = "idle" /\ loads'[c].pc = "awaitResolver" =>
             LET u == loads'[c].uri
             IN  /\ canonicalGet(canonical, u) = NoResource /\ hasResolver
                 /\ timesInvoked(invoked', u) = timesInvoked(invoked, u) + 1
                 /\ \A w \in (DOMAIN invoked' \cup DOMAIN invoked) \ {u} :
                      timesInvoked(invoked', w) = timesInvoked(invoked, w)
      /\ \A c \in LoadIds :
           loads[c].pc = "awaitResolver" /\ loads'[c].pc = "idle" =>
             /\ invoked' = invoked
             /\ ret'.op = "resolveResource" /\ ret'.node = loads[c].uri
             /\ IF ret'.value.ok /\ ret'.value.resource # NoResource
                THEN LET r == ret'.value.resource
                     IN  /\ MapGet(resources', ResourceTable[r].node, NoResource) = r
                         /\ ResourceTable[r].uri # UndefStr =>
                              MapGet(canonical', ResourceTable[r].uri, NoResource) = r
                ELSE canonical' = canonical /\ resources' = resources ]_vars

\* A direct call for document V awaited the resolver, called once, and
\* returned the second Resource object, which the context now holds.
C19_Witness ==
  /\ ret.op = "resolveResource" /\ ret.node = <<"v">> /\ ret.value = Loaded(4)
  /\ timesInvoked(invoked, <<"v">>) = 1
  /\ canonicalGet(canonical, <<"v">>) = 4
  /\ MapGet(resources, ResourceTable[4].node, NoResource) = 4

\* C20 as stated: the external resolver is called at most once with a
\* canonical URI it has supplied a resource for.
C20_AtMostOnce ==
  \A u \in supplied : timesInvoked(invoked, u) <= 1

\* C20: a canonical URI the canonical map holds a resource for stays in the
\* map, the external resolver is not called with it again, by a direct call
\* or by a pass, and a direct call for it returns the resource the map
\* holds.
C20_CachedOnceRegistered ==
  [][ \A u \in DOMAIN canonical :
        /\ u \in DOMAIN canonical'
        /\ timesInvoked(invoked', u) = timesInvoked(invoked, u)
        /\ returnsAtOnce /\ ret'.node = u => ret'.value = Loaded(canonical[u])
        /\ \A p \in PassIds : passes'[p].pc = "awaitResolver" /\ passes[p].pc # "awaitResolver"
             => SplitHash2(heap'[passes'[p].cur].uri)[1] # u ]_vars

\* The pass resolved its reference to document V, the resolver was called
\* once for V in all, and a direct call for V has just returned V from the
\* canonical map.
C20_Witness ==
  /\ ret.op = "resolveResource" /\ ret.node = <<"v">> /\ ret.value = Loaded(3)
  /\ timesInvoked(invoked, <<"v">>) = 1
  /\ supplied = {<<"v">>}
  /\ Len(heap) = 1 /\ heap[1].target = Obj(ResourceTable[3].node)

\* ---------------------------------------------------------------- registry

\* getResource(context, node).
getResource(res, node) == MapGet(res, node, NoResource)

\* C21: setResource puts the resource in context.resources under its node
\* and, when it has a canonical URI, in context.canonical under that URI and,
\* when the URI ends in '#', under the URI without it, whatever those keys
\* held before; every other key keeps what it held.
C21_SetResourceIndexes ==
  [][ ret'.op = "setResource" =>
        LET resource == ret'.node
            r == ResourceTable[resource]
            alias == Slice(r.uri, 0, Len(r.uri) - 1)
            keys == IF r.uri = UndefStr THEN {}
                    ELSE IF EndsWith(r.uri, "#") THEN {r.uri, alias}
                    ELSE {r.uri}
        IN  /\ getResource(resources', r.node) = resource
            /\ \A u \in keys : canonicalGet(canonical', u) = resource
            /\ DOMAIN resources' = DOMAIN resources \cup {r.node}
            /\ DOMAIN canonical' = DOMAIN canonical \cup keys
            /\ \A n \in DOMAIN resources \ {r.node} : resources'[n] = resources[n]
            /\ \A u \in DOMAIN canonical \ keys : canonical'[u] = canonical[u] ]_vars

\* Document B was registered under "u", then the resource with the URI "u#"
\* was registered for the same node: the node and both URIs now lead to the
\* later resource, which resolveResource has just returned for "u".
C21_Witness ==
  /\ getResource(resources, 8) = 5
  /\ canonicalGet(canonical, <<"u">>) = 5
  /\ canonicalGet(canonical, <<"u", "#">>) = 5
  /\ ret.op = "resolveResource" /\ ret.node = <<"u">> /\ ret.value = Loaded(5)

\* The error the external resolver fails with.
resolverError == PlainError(<<"Failed to load resource">>)

\* A direct resolveResource call ends in this step without a resource:
\* fulfilled with `undefined`, or rejected.
endsAbsent ==
  /\ ret'.op = "resolveResource"
  /\ ~ret'.value.ok \/ ret'.value.resource = NoResource

\* C22: a resolveResource call for a canonical URI the map does not hold
\* returns `undefined` when no resolver is configured and when the resolver
\* returns `undefined`, and is rejected with the resolver's own error when
\* the resolver fails; context.resources and context.canonical are left
\* as they were.
C22_AbsentOrFailed ==
  [][ endsAbsent =>
        /\ resources' = resources /\ canonical' = canonical
        /\ ret'.value \in {Loaded(NoResource), Throw(resolverError)}
        /\ returnsAtOnce <=> ~hasResolver
        /\ returnsAtOnce =>
             /\ canonicalGet(canonical, ret'.node) = NoResource
             /\ ret'.value = Loaded(NoResource) ]_vars

\* The resolver failed for a URI the map does not hold: the call was
\* rejected with the resolver's error and the map still holds nothing for it.
C22_Witness ==
  /\ ret.op = "resolveResource" /\ ret.value = Throw(resolverError)
  /\ canonicalGet(canonical, ret.node) = NoResource
  /\ DOMAIN canonical = {<<"u">>}

\* ------------------------------------------------- anchors, fragments, URIs

\* The names some resource has an anchor under, in either state of a step.
anchorNames(anch) == UNION {DOMAIN MapGet(anch, r, EmptyMap) : r \in ResourceIds}

\* C26: setResourceAnchor(A, name, node) makes getResourceAnchor(A, name)
\* the node and changes the result of getResourceAnchor for no other name on
\* A and for no name on any other resource.
C26_AnchorsScoped ==
  [][ ret'.op = "setResourceAnchor" =>
        LET A == ret'.node[1]
            name == ret'.node[2]
        IN  /\ getResourceAnchor(anchors', A, name) = ret'.value.v
            /\ \A B \in ResourceIds, nm \in anchorNames(anchors) \cup anchorNames(anchors') :
                 B # A \/ nm # name =>
                   getResourceAnchor(anchors', B, nm) = getResourceAnchor(anchors, B, nm) ]_vars

\* Both Resource objects of document B have an anchor "a", each its own
\* node, and the first resource's other anchor is still in place after "a"
\* was set on it.
C26_Witness ==
  /\ ret.op = "setResourceAnchor" /\ ret.node = <<2, <<"a">>>>
  /\ getResourceAnchor(anchors, 2, <<"a">>) = Obj(9)
  /\ getResourceAnchor(anchors, 5, <<"a">>) = Obj(2)
  /\ getResourceAnchor(anchors, 2, <<"n">>) = Obj(9)
  /\ getResourceAnchor(anchors, 5, <<"n">>) = Undef

\* The reference tokens of a JSON pointer without escapes: the pieces that
\* follow each '/'.
RECURSIVE tokens(_)
tokens(pointer) ==
  IF pointer = <<>> THEN <<>>
  ELSE LET next == IndexOf(pointer, "/", 1)
           end == IF next = -1 THEN Len(pointer) ELSE next
       IN  <<Slice(pointer, 1, end)>> \o tokens(Slice(pointer, end, Len(pointer)))

\* The value reached from a node along a path of keys, undefined when a key
\* is absent on the way.
RECURSIVE walk(_, _)
walk(node, path) ==
  IF path = <<>> THEN node ELSE walk(getChild(node, Head(path)), Tail(path))

\* The outcome is the value, or a ResolutionError when there is none.
valueOrResolutionError(outcome, value) ==
  IF value # Undef THEN outcome = Ok(value)
  ELSE ~outcome.ok /\ outcome.err.cls = "ResolutionError"

\* C23: resolveResourceFragment returns the root node of the resource for an
\* empty fragment; for a fragment that starts with '/', the value reached
\* from the root node along its reference tokens, or a ResolutionError when a
\* token is absent; for any other fragment, the anchor the resource has under
\* exactly that name, or a ResolutionError when it has none.
C23_FragmentModes ==
  ret.op = "resolveResourceFragment" =>
    LET resource == ret.node[1]
        fragment == ret.node[2]
        root == Obj(ResourceTable[resource].node)
    IN  IF fragment = <<>> THEN ret.value = Ok(root)
        ELSE IF Head(fragment) = "/"
        THEN valueOrResolutionError(ret.value, walk(root, tokens(fragment)))
        ELSE valueOrResolutionError(ret.value, getResourceAnchor(anchors, resource, fragment))

\* A pointer through the array of document B reached the string under "k",
\* while an anchor named "a" exists that no pointer fragment consults.
C23_Witness ==
  /\ ret.op = "resolveResourceFragment"
  /\ ret.node = <<2, <<"/", "t", "/", "1", "/", "k">>>>
  /\ ret.value = Ok(Str(<<"s">>))
  /\ getResourceAnchor(anchors, 2, <<"a">>) = Obj(2)

\* C24 as stated: resolveResourceUri takes everything before the first '#'
\* as the canonical part and everything after it as the fragment, so that a
\* reference whose fragment is the name of an anchor of the resource, '#'
\* included, yields that anchor.
C24_FragmentWhole ==
  ret.op = "resolveResourceUri" =>
    LET uri == ret.node[2]
        h == IndexOf(uri, "#", 0)
        canonicalUri == IF h = -1 THEN uri ELSE Slice(uri, 0, h)
        fragment == IF h = -1 THEN <<>> ELSE Slice(uri, h + 1, Len(uri))
        resource == IF Len(canonicalUri) # 0 THEN canonicalGet(canonical, canonicalUri)
                    ELSE ret.node[1]
    IN  /\ resource # NoResource
        /\ fragment # <<>> /\ Head(fragment) # "/"
        /\ getResourceAnchor(anchors, resource, fragment) # Undef
        => ret.value = Ok(getResourceAnchor(anchors, resource, fragment))

\* Document B has the anchors "a" and "a#b" on different nodes, and the
\* reference "u#a#b" has been resolved to the node of "a".
C24_Witness ==
  /\ ret.op = "resolveResourceUri"
  /\ ret.node[2] = <<"u", "#", "a", "#", "b">>
  /\ getResourceAnchor(anchors, 2, <<"a", "#", "b">>) = Obj(3)
  /\ getResourceAnchor(anchors, 2, <<"a">>) = Obj(9)
  /\ ret.value = Ok(Obj(9))

\* C25: resolveResourceUri resolves the fragment against the resource the
\* canonical map holds for the canonical part when that part is not empty,
\* whatever base resource was supplied, and against the supplied base
\* resource when it is empty; it fails with a ResolutionError when the map
\* holds no resource for the canonical part (unless the resolver itself
\* failed) and when the part is empty and no base was supplied; with an empty
\* or absent fragment it returns the root node of the resource chosen.
C25_ResourceByCanonicalPart ==
  ret.op = "resolveResourceUri" =>
    LET base == ret.node[1]
        uri == ret.node[2]
        h == IndexOf(uri, "#", 0)
        canonicalUri == IF h = -1 THEN uri ELSE Slice(uri, 0, h)
        fragment == SplitHash2(uri)[2]
        chosen == IF Len(canonicalUri) # 0 THEN canonicalGet(canonical, canonicalUri)
                  ELSE base
    IN  IF chosen = NoResource
        THEN /\ ~ret.value.ok
             /\ \/ ret.value.err.cls = "ResolutionError"
                \/ Len(canonicalUri) # 0 /\ hasResolver /\ ret.value.err = resolverError
        ELSE IF fragment = UndefStr \/ fragment = <<>>
        THEN ret.value = Ok(Obj(ResourceTable[chosen].node))
        ELSE ret.value = resolveResourceFragment(resources, anchors, stack, chosen, fragment)

\* Document A was supplied as the base and the reference names document B:
\* the pointer was resolved in document B, whose "t" is node 9, not in
\* document A, whose "t" is node 2.
C25_Witness ==
  /\ ret.op = "resolveResourceUri"
  /\ ret.node = <<1, <<"u", "#", "/", "t">>>>
  /\ ret.value = Ok(Obj(9))
  /\ getChild(Obj(1), <<"t">>) = Obj(2)

\* -------------------------------------------------------------- detection

\* The value the node holds under the keyword is not a string: the node is
\* not an object or array, holds no such keyword, or holds another kind of
\* value under it.
noStringUnder(node, key) ==
  \/ ~isObject(node)
  \/ \A i \in 1..Len(Entries(node)) :
       Entries(node)[i][1] = key => Entries(node)[i][2].t # "str"

\* C27: detectReference on a value that holds no string under the keyword
\* (a keyword value of another kind, no such keyword, or a value that is not
\* an object) returns no reference, raises no error, and leaves the
\* references map, the unresolved map and every Reference as they were.
C27_NonStringIgnored ==
  [][(/\ ret'.op = "detectReference"
      /\ noStringUnder(ret'.node[1], ret'.node[2]))
     => /\ ret'.value.ok
        /\ ret'.value.v = NoReference
        /\ references' = references
        /\ unresolved' = unresolved
        /\ heap' = heap]_vars

\* detectReference returned nothing for node 12, whose "$ref" is an object,
\* inside a frame with a base URI and with a reference registered before.
C27_Witness ==
  /\ ret.op = "detectReference"
  /\ ret.node[1] = Obj(12)
  /\ ret.value.ok
  /\ ret.value.v = NoReference
  /\ currentBaseUri(stack) # UndefStr
  /\ heap # <<>>
  /\ getReference(references, Obj(12)) = NoReference

\* The frames of a stack that carry a base URI.
withBaseUri(stk) == {i \in 1..Len(stk) : stk[i].baseUri # UndefStr}

\* C28: detectReference on a node that holds a string under the keyword
\* registers the node with that string resolved against the base URI of the
\* nearest enclosing frame that has one, and with the string as it stands
\* (once validated) when no frame has one; when the string or the base URI
\* is not a valid URI the UriError propagates and nothing is registered.
C28_ResolvedAgainstNearestBase ==
  [][(/\ ret'.op = "detectReference"
      /\ ~noStringUnder(ret'.node[1], ret'.node[2]))
     => LET node == ret'.node[1]
            key == ret'.node[2]
            value == getChild(node, key).s
            based == withBaseUri(stack)
            nearest == stack[CHOOSE i \in based : \A j \in based : j <= i].baseUri
            invalid == \/ ~validUriReference(value)
                       \/ based # {} /\ ~validUriReference(nearest)
            expected == IF based # {} THEN resolveUri(nearest, value) ELSE value
        IN  IF invalid
            THEN /\ ~ret'.value.ok
                 /\ ret'.value.err = UriError
                 /\ references' = references
                 /\ unresolved' = unresolved
                 /\ heap' = heap
            ELSE /\ ret'.value.ok
                 /\ getReference(references', node) = ret'.value.v
                 /\ getReference(references, node) = NoReference
                    => /\ heap'[ret'.value.v] = createReference(key, expected)
                       /\ ret'.value.v \in unresolvedIds(unresolved')]_vars

\* Node 3, whose "$ref" is "#/t", was registered with "w#/t" inside two
\* frames, the outer one carrying the base URI "w#x" and the inner one none.
C28_Witness ==
  /\ ret.op = "detectReference"
  /\ ret.node[1] = Obj(3)
  /\ ret.value.ok
  /\ Len(stack) = 2
  /\ stack[1].baseUri = <<"w", "#", "x">>
  /\ stack[2].baseUri = UndefStr
  /\ heap[ret.value.v].uri = <<"w", "#", "/", "t">>
  /\ ret.value.v \in unresolvedIds(unresolved)

\* The visit was made inside a frame pushed directly on the stack of the
\* visit that made it, carrying the key and the node of one of that visit's
\* entries, namely the node visited.
insideChildFrame(visit, by) ==
  LET stk == visit.stk
      top == stk[Len(stk)]
  IN  /\ Len(stk) = Len(by.stk) + 1
      /\ SubSeq(stk, 1, Len(stk) - 1) = by.stk
      /\ top.node = visit.node
      /\ isObject(by.node)
      /\ \E k \in 1..Len(Entries(by.node)) :
           Entries(by.node)[k] = <<top.nodeKey, visit.node>>

\* C29: detectReferences visits the node and every descendant reached
\* through array elements and object values, and registers every visited
\* node that holds a string under one of the keywords and no other node.
\* While a child is visited the top frame carries that child's key and node
\* and the frame beneath it is the top frame of its parent's visit. When the
\* call returns, and when it fails part-way, the stack is the one the call
\* found.
C29_WalkKeepsStack ==
  [][ret'.op = "detectReferences"
     => LET root == ret'.node[1]
            keys == ret'.node[2]
            log == ret'.visits
            holds(node) == \E k \in 1..Len(keys) : ~noStringUnder(node, keys[k])
            visited == {log[i].node : i \in 1..Len(log)}
        IN  /\ stack' = stack
            /\ log[1] = [node |-> root, stk |-> stack, parent |-> 0]
            /\ \A i \in 2..Len(log) :
                 /\ log[i].parent \in 1..(i - 1)
                 /\ insideChildFrame(log[i], log[log[i].parent])
            /\ \A n \in NodeIds :
                 getReference(references', Obj(n)) # getReference(references, Obj(n))
                 => Obj(n) \in visited /\ holds(Obj(n))
            /\ \A i \in 1..(Len(log) - 1) :
                 holds(log[i].node) => getReference(references', log[i].node) # NoReference
            /\ ret'.value.ok
               => /\ holds(log[Len(log)].node)
                     => getReference(references', log[Len(log)].node) # NoReference
                  /\ \A p \in 1..Len(log) :
                       isObject(log[p].node)
                       => \A k \in 1..Len(Entries(log[p].node)) :
                            \E i \in 1..Len(log) :
                              /\ log[i].parent = p
                              /\ log[i].node = Entries(log[p].node)[k][2]
                              /\ log[i].stk[Len(log[i].stk)].nodeKey
                                   = Entries(log[p].node)[k][1]]_vars

\* detectReferences on node 13, called inside a frame, registered node 3,
\* visited the string node 3 holds, two frames deep, failed at node 11 and
\* never visited node 4; the frame of the caller is on
\* top of the stack again.
C29_Witness ==
  /\ ret.op = "detectReferences"
  /\ ret.node[1] = Obj(13)
  /\ ~ret.value.ok
  /\ ret.value.err = UriError
  /\ Len(ret.visits) = 4
  /\ ret.visits[3].node = Str(<<"#", "/", "t">>)
  /\ Len(ret.visits[3].stk) = Len(stack) + 2
  /\ ret.visits[4].node = Obj(11)
  /\ Len(ret.visits[4].stk) = Len(stack) + 1
  /\ stack # <<>>
  /\ stack = ret.visits[1].stk
  /\ getReference(references, Obj(3)) # NoReference
  /\ getReference(references, Obj(4)) = NoReference

\* ------------------------------------------------------- failed references

\* A resolveReferences call is awaiting the resolution of the Reference.
underAttempt(ps, reference) ==
  \E p \in DOMAIN ps :
    /\ ps[p].pc \in {"awaitUri", "awaitResolver"}
    /\ ps[p].cur = reference

\* The resolution of the Reference was attempted and failed: it has left the
\* unresolved map, no call is resolving it, and it has no target.
failedReference(reference) ==
  /\ heap[reference].target = Undef
  /\ reference \notin unresolvedIds(unresolved)
  /\ ~underAttempt(passes, reference)

\* C30: a Reference whose resolution failed is never retried. In every step
\* (registerReference or detectReference on its node again, a new
\* resolveReferences call, the resolver settling, a call resuming) its target
\* stays unset, it does not return to the unresolved map, and no call takes
\* it up.
C30_FailedNeverRetried ==
  [][\A reference \in DOMAIN heap :
       failedReference(reference)
       => /\ heap'[reference].target = Undef
          /\ reference \notin unresolvedIds(unresolved')
          /\ ~underAttempt(passes', reference)]_vars

\* A later resolveReferences call has ended after resolving another
\* Reference, without taking up the Reference that failed before.
C30_Witness ==
  \E reference \in DOMAIN heap :
    /\ failedReference(reference)
    /\ passes[1].pc = "done"
    /\ passes[1].taken # {}
    /\ reference \notin passes[1].taken
    /\ \E other \in passes[1].taken : heap[other].target # Undef

\* ------------------------------------------------------ overlapping passes

\* The step makes the call remove an entry from the unresolved map and begin
\* its resolution.
takesEntry(before, after) ==
  /\ after.pc \in {"awaitUri", "awaitResolver"}
  /\ before.pc \in {"idle", "done"} \/ after.cur # before.cur

\* C31: within one resolveReferences call the entries are resolved one at a
\* time. When the call removes an entry from the unresolved map it removes
\* that entry only, it is not suspended on the external resolver, and the
\* entry it took before has settled: its target is set or its error has been
\* captured. The external resolver is called by one call at a time, once,
\* and only by a call that was not suspended on it.
C31_OneAtATime ==
  [][/\ \A p \in DOMAIN passes :
          takesEntry(passes[p], passes'[p])
          => /\ passes[p].pc # "awaitResolver"
             /\ unresolvedIds(unresolved) \ unresolvedIds(unresolved') = {passes'[p].cur}
             /\ passes[p].pc = "awaitUri"
                => \/ heap'[passes[p].cur].target # Undef
                   \/ Len(passes'[p].cause) = Len(passes[p].cause) + 1
     /\ invoked' # invoked
        => \E p \in DOMAIN passes :
             /\ passes'[p].pc = "awaitResolver"
             /\ passes[p].pc # "awaitResolver"
             /\ \A q \in DOMAIN passes \ {p} : passes'[q] = delivered(passes)[q]
             /\ LET u == SplitHash2(heap'[passes'[p].cur].uri)[1]
                IN  /\ timesInvoked(invoked', u) = timesInvoked(invoked, u) + 1
                    /\ \A v \in DOMAIN invoked \ {u} :
                         timesInvoked(invoked', v) = timesInvoked(invoked, v)]_vars

\* A call is suspended on the resolver for its second entry, document V,
\* after the resolver call for its first entry, document "w", ended with no
\* resource and the error was captured.
C31_Witness ==
  \E p \in DOMAIN passes :
    /\ passes[p].pc = "awaitResolver"
    /\ Cardinality(passes[p].taken) = 2
    /\ Len(passes[p].cause) = 1
    /\ timesInvoked(invoked, <<"w">>) = 1
    /\ timesInvoked(invoked, <<"v">>) = 1

\* --------------------------------------------------------- traverseReference

\* C32 as stated: every call of traverseReference returns.
C32_Terminates == traversing ~> ~traversing

\* traverseReference, called on node 3, is at node 4 after one turn of its
\* loop; node 3 is resolved to node 4 and node 4 to node 3.
C32_Witness ==
  /\ traversing
  /\ ret.node = Obj(3)
  /\ ret.value = Obj(4)
  /\ getReference(references, Obj(3)) # NoReference
  /\ getReference(references, Obj(4)) # NoReference
  /\ heap[getReference(references, Obj(3))].target = Obj(4)
  /\ heap[getReference(references, Obj(4))].target = Obj(3)

\* ------------------------------------------------------ aggregation order

\* The errors the resolution of a URI may end with in a call with the base
\* resource `base`: those of resolveResourceUri without a resource, with the
\* base resource or with the resource of the canonical part, and that of
\* the external resolver.
errorsOf(uri, base) ==
  LET outcomes == {resolveResourceUriTail(resources, anchors, stack, resource, uri) :
                     resource \in {NoResource, base, canonicalGet(canonical, SplitHash2(uri)[1])}}
  IN  {outcome.err : outcome \in {o \in outcomes : ~o.ok}}
        \cup {ResolutionError(<<"Resolver failed">>, <<>>, NoCause)}

\* The k-th smallest element of a set of numbers.
kth(set, k) == CHOOSE x \in set : Cardinality({y \in set : y <= x}) = k

\* C33: the cause list of the aggregate ResolutionError thrown by
\* resolveReferences holds one error for each reference of the call that
\* failed, in the order in which the references were registered: the i-th
\* error is one the resolution of the i-th failed reference's URI ends with.
C33_CauseInRegistrationOrder ==
  \A p \in DOMAIN passes :
    LET pass == passes[p]
        failed == {id \in pass.taken : heap[id].target = Undef}
    IN  (pass.pc = "done" /\ pass.out = "threw" /\ Cardinality(failed) >= 2
           /\ pass.err.cls = "ResolutionError")
        => /\ Len(pass.err.cause) = Cardinality(failed)
           /\ \A i \in 1..Len(pass.err.cause) :
                pass.err.cause[i] \in errorsOf(heap[kth(failed, i)].uri, pass.base)

\* A call threw the aggregate of the errors of two references with different
\* URIs, registered in this order: a pointer that does not resolve, then a
\* document nobody supplies; the two errors differ.
C33_Witness ==
  \E p \in DOMAIN passes :
    /\ passes[p].pc = "done"
    /\ passes[p].taken = {1, 2}
    /\ heap[1].uri = <<"#", "/", "z">>
    /\ heap[2].uri = <<"v">>
    /\ Len(passes[p].err.cause) = 2
    /\ passes[p].err.cause[1] \in errorsOf(heap[1].uri, passes[p].base)
    /\ passes[p].err.cause[2] \in errorsOf(heap[2].uri, passes[p].base)
    /\ passes[p].err.cause[1] \notin errorsOf(heap[2].uri, passes[p].base)
    /\ passes[p].err.cause[2] \notin errorsOf(heap[1].uri, passes[p].base)

\* ------------------------------------------------------------ frame reads

\* The base URI of the nearest of the first i frames of a stack that has one.
nearestBaseUri(stk, i) ==
  LET based == {j \in withBaseUri(stk) : j <= i}
  IN  IF based = {} THEN UndefStr
      ELSE stk[CHOOSE j \in based : \A k \in based : k <= j].baseUri

\* C34: currentBaseUri returns the base URI of the nearest frame that has
\* one, from the given frame toward the root, and nothing when none has one.
\* When the top frame is popped, the base URI of the context is again that
\* of the frames beneath it, whatever base URI the popped frame had.
C34_NearestBaseUri ==
  [][/\ ret'.op = "currentBaseUri"
        => ret'.value = nearestBaseUri(stack', ret'.node)
     /\ (stack # <<>> /\ stack' = SubSeq(stack, 1, Len(stack) - 1))
        => currentBaseUri(stack') = nearestBaseUri(stack, Len(stack) - 1)]_vars

\* The second frame has been popped, and the base URI asked for is that of
\* the frame that is on top again.
C34_Witness ==
  /\ ret.op = "currentBaseUri"
  /\ ret.node = 1
  /\ ret.value = <<"u">>
  /\ Len(stack) = 1
  /\ Len(units) = 2
  /\ units[2].pc = "done"

\* The pointer made of the keys of the frames from..to of a stack.
RECURSIVE keysPointer(_, _, _)
keysPointer(stk, from, to) ==
  IF from > to THEN <<>>
  ELSE (IF stk[from].nodeKey # UndefStr
        THEN <<"/">> \o escapePointer(stk[from].nodeKey) ELSE <<>>)
       \o keysPointer(stk, from + 1, to)

\* The canonical URI of the resource the frame's node is registered as;
\* UndefStr when it is not registered or the resource has no URI.
ownUri(frame) ==
  IF frame.node.t # "obj" \/ frame.node.n \notin DOMAIN resources THEN UndefStr
  ELSE ResourceTable[resources[frame.node.n]].uri

\* C35: currentLocation is the empty string for no frame, and the canonical
\* URI alone for a frame whose node is registered as a resource with a URI,
\* whatever its key. For any other frame it is the canonical URI of the
\* nearest frame beneath it whose node is such a resource ('#' alone when
\* there is none), with '#' added unless the URI holds one, followed by
\* '/' and the escaped key of every frame above that one, up to the given
\* frame, that has a key: the fragment is the pointer made of those keys.
C35_LocationFromBoundary ==
  ret.op = "currentLocation" =>
    LET i == ret.node
        bounds == {j \in 1..i : ownUri(stack[j]) # UndefStr}
        b == IF bounds = {} THEN 0 ELSE CHOOSE j \in bounds : \A k \in bounds : k <= j
        uri == IF b = 0 THEN <<>> ELSE ownUri(stack[b])
        h == IndexOf(ret.value, "#", 0)
    IN  IF i = 0 THEN ret.value = <<>>
        ELSE IF b = i THEN ret.value = uri
        ELSE /\ ret.value = (IF IndexOf(uri, "#", 0) = -1 THEN uri \o <<"#">> ELSE uri)
                              \o keysPointer(stack, b + 1, i)
             /\ h # -1
             /\ Slice(ret.value, h + 1, Len(ret.value)) = keysPointer(stack, b + 1, i)

\* The location of a frame with the key "~/" inside the frame of document
\* B's root, itself entered with a key that is ignored: "u#/~0~1".
C35_Witness ==
  /\ ret.op = "currentLocation"
  /\ ret.node = 2
  /\ Len(stack) = 2
  /\ stack[1].node = Obj(8)
  /\ stack[1].nodeKey = <<"k">>
  /\ stack[2].nodeKey = <<"~", "/">>
  /\ ret.value = <<"u", "#", "/", "~", "0", "~", "1">>

\* ----------------------------------------------------------- stack balance

\* Every nestFrame call that was started has settled, and no unit of work
\* pushed or popped a frame on its own.
allSettled == units # <<>> /\ running(units) = {} /\ strays = 0

passesSettled ==
  /\ \A p \in DOMAIN passes : passes[p].pc \in {"idle", "done"}
  /\ \E p \in DOMAIN passes : passes[p].pc = "done"

C38_TargetIsDefinition ==
  shaken =>
    LET r == ret.value
        reg == r.st.registered
    IN  \A i \in 1..Len(reg) :
          LET id == getReference(references, reg[i][1])
          IN  /\ id # NoReference
              /\ id \notin unresolvedIds(unresolved)
              /\ heap[id].key = RefKey
              /\ \E name \in DOMAIN r.st.defs :
                   /\ heap[id].uri = DefsUri \o <<"/">> \o escapePointer(name)
                   /\ heap[id].target = r.st.defs[name]

\* A pointer emitted inside the definition "t" names that definition, which
\* defs holds on return, and its Reference has no target.
C38_Witness ==
  /\ shaken
  /\ <<"t">> \in DOMAIN ret.value.st.defs
  /\ ret.value.st.defs[<<"t">>] # Undef
  /\ \E v \in built(ret.value.st.defs[<<"t">>]) :
       /\ getReference(references, v) # NoReference
       /\ heap[getReference(references, v)].uri = DefsUri \o <<"/", "t">>
       /\ heap[getReference(references, v)].target = Undef

\* --------------------------------------------------------- several keywords

\* The first of `keys`, in their order, under which `node` has a string
\* (0 if there is none).
RECURSIVE firstStringKey(_, _, _)
firstStringKey(node, keys, i) ==
  IF i > Len(keys) THEN 0
  ELSE IF getChild(node, keys[i]).t = "str" THEN i
  ELSE firstStringKey(node, keys, i + 1)

\* C39: detectReferences with several keywords gives a node at most one
\* Reference. A node visited by a walk that had a Reference before the walk
\* keeps that Reference with its key, URI and target; a node without one that
\* has strings under the supplied keywords is registered once, tracked as
\* unresolved once, with the key of the first such keyword in the supplied
\* order and that keyword's string resolved against the base URI in scope;
\* a walk creates no more References than the nodes it registers.
C39_FirstKeywordWins ==
  [][ret'.op = "detectReferences" =>
       LET keys == ret'.node[2]
           visits == ret'.visits
           objects == {i \in 1..Len(visits) : isObject(visits[i].node)}
           fresh == {visits[i].node : i \in {j \in objects :
                        /\ getReference(references, visits[j].node) = NoReference
                        /\ getReference(references', visits[j].node) # NoReference}}
       IN  /\ Len(heap') = Len(heap) + Cardinality(fresh)
           /\ \A i \in objects :
                LET node == visits[i].node
                    old == getReference(references, node)
                    new == getReference(references', node)
                    k == firstStringKey(node, keys, 1)
                    baseUri == currentBaseUri(visits[i].stk)
                IN  IF old # NoReference
                    THEN new = old /\ heap'[old] = heap[old]
                    ELSE IF new # NoReference
                    THEN /\ k > 0
                         /\ heap'[new].key = keys[k]
                         /\ heap'[new].uri =
                              IF baseUri # UndefStr
                              THEN resolveUri(baseUri, getChild(node, keys[k]).s)
                              ELSE getChild(node, keys[k]).s
                         /\ Cardinality({e \in 1..Len(unresolved') :
                                           unresolved'[e][1] = node}) = 1
                    ELSE k = 0 \/ ~ret'.value.ok]_vars

\* A walk with the keywords "k" and "$ref", in this order, has registered
\* node 14 under "k", and a later walk with the keywords in the other order
\* and another base URI in scope has left that Reference as it was.
C39_Witness ==
  /\ ret.op = "detectReferences"
  /\ ret.node = <<Obj(14), <<RefKey, <<"k">>>>>>
  /\ ret.value.ok
  /\ currentBaseUri(stack) = <<"w", "#", "x">>
  /\ getReference(references, Obj(14)) # NoReference
  /\ heap[getReference(references, Obj(14))].key = <<"k">>
  /\ heap[getReference(references, Obj(14))].uri = <<"s">>
  /\ Len(heap) = 1

\* ------------------------------------------------------- initial resources

\* The call made last was createContext or initContext.
configured == ret.op \in {"createContext", "initContext"}

\* The canonical URIs of a resource: its URI, and the URI without the
\* trailing '#' when it has one.
addresses(resource) ==
  LET uri == ResourceTable[resource].uri
  IN  IF uri = UndefStr THEN {}
      ELSE IF EndsWith(uri, "#") THEN {uri, Slice(uri, 0, Len(uri) - 1)}
      ELSE {uri}

\* C40: every resource given to createContext or initContext through the
\* resources option, as an array or as a map keyed by node, is returned by
\* getResource for its node and is found in the canonical map under its URI
\* and under the URI without a trailing '#'; a resolveResource call made next
\* for one of those URIs returns the resource at once and leaves the
\* external resolver uncalled.
C40_SuppliedIndexed ==
  [][configured =>
       \A i \in 1..Len(ret.node[2]) :
         LET resource == ret.node[2][i]
         IN  /\ getResource(resources, ResourceTable[resource].node) = resource
             /\ \A u \in addresses(resource) :
                  /\ canonicalGet(canonical, u) = resource
                  /\ timesInvoked(invoked', u) = timesInvoked(invoked, u)
                  /\ loads[1].pc = "idle" /\ ret'.op = "resolveResource" /\ ret'.node = u
                       => ret'.value = Loaded(resource)]_vars

\* createContext was given document B in a Map: getResource returns it for
\* its node, and resolveResource for its canonical URI awaits the external
\* resolver, which was called with that URI.
C40_Witness ==
  /\ getResource(resources, 8) = 2
  /\ canonicalGet(canonical, <<"u">>) = NoResource
  /\ loads[1].pc = "awaitResolver" /\ loads[1].uri = <<"u">>
  /\ timesInvoked(invoked, <<"u">>) = 1

====
